---------------------------- MODULE Spec2Model ----------------------------
(***************************************************************************)
(* Model of the expense pipeline of expense_tool_portfolio_v2:             *)
(*   check_rows -> normalize_ok_rows -> apply_rules -> make_summary        *)
(* and of the clean.csv round trip (write_csv, read_csv, check_rows).      *)
(*                                                                         *)
(* Text is modelled as a sequence of one-character strings, so that        *)
(* strip, lower, strptime, int() and str() are computed character by       *)
(* character as Python computes them.                                      *)
(***************************************************************************)
EXTENDS Integers, Sequences, FiniteSets, TLC

(***************************************************************************)
(* Text helpers (Python str methods).                                      *)
(***************************************************************************)

\* Python's None where a str is expected (a dict entry, a dataclass field).
NoneVal == <<"<None>">>

\* Python's None where a list of str is expected.
NoneList == <<NoneVal>>

Digits == {"0", "1", "2", "3", "4", "5", "6", "7", "8", "9"}

\* Characters str.strip() removes (the ASCII part of str.isspace()).
White == {" ", "\t", "\n", "\r"}

UpperChars == <<"A", "B", "C", "D", "E", "F", "G", "H", "I", "J", "K", "L", "M",
                "N", "O", "P", "Q", "R", "S", "T", "U", "V", "W", "X", "Y", "Z">>

LowerChars == <<"a", "b", "c", "d", "e", "f", "g", "h", "i", "j", "k", "l", "m",
                "n", "o", "p", "q", "r", "s", "t", "u", "v", "w", "x", "y", "z">>

DigitVal(c) ==
  CASE c = "0" -> 0 [] c = "1" -> 1 [] c = "2" -> 2 [] c = "3" -> 3
    [] c = "4" -> 4 [] c = "5" -> 5 [] c = "6" -> 6 [] c = "7" -> 7
    [] c = "8" -> 8 [] c = "9" -> 9

DigitChar(n) == <<"0", "1", "2", "3", "4", "5", "6", "7", "8", "9">>[n + 1]

\* str.lower() on one character.
LowerChar(c) ==
  IF \E i \in DOMAIN UpperChars : UpperChars[i] = c
  THEN LowerChars[CHOOSE i \in DOMAIN UpperChars : UpperChars[i] = c]
  ELSE c

\* str.lower()
lower(s) == [i \in DOMAIN s |-> LowerChar(s[i])]

RECURSIVE lstrip(_)
lstrip(s) == IF s # <<>> /\ Head(s) \in White THEN lstrip(Tail(s)) ELSE s

RECURSIVE rstrip(_)
rstrip(s) ==
  IF s # <<>> /\ s[Len(s)] \in White THEN rstrip(SubSeq(s, 1, Len(s) - 1)) ELSE s

\* str.strip()
strip(s) == rstrip(lstrip(s))

\* The value of a run of decimal digits.
RECURSIVE Num(_)
Num(ds) ==
  IF ds = <<>> THEN 0
  ELSE 10 * Num(SubSeq(ds, 1, Len(ds) - 1)) + DigitVal(ds[Len(ds)])

AllDigits(s) == \A i \in DOMAIN s : s[i] \in Digits

\* str(n) for a non-negative int.
RECURSIVE StrNat(_)
StrNat(n) == IF n < 10 THEN <<DigitChar(n)>> ELSE Append(StrNat(n \div 10), DigitChar(n % 10))

\* str(n) for an int.
StrInt(n) == IF n < 0 THEN <<"-">> \o StrNat(-n) ELSE StrNat(n)

\* s[:k]
Prefix(s, k) == SubSeq(s, 1, IF k < Len(s) THEN k ELSE Len(s))

\* The code point of a character (ASCII), which orders Python's str.
CharOrd(c) ==
  CASE c = " " -> 32 [] c = "\"" -> 34 [] c = "+" -> 43 [] c = "," -> 44
    [] c = "-" -> 45 [] c = "." -> 46 [] c = "/" -> 47 [] c = "_" -> 95
    [] c \in Digits -> 48 + DigitVal(c)
    [] \E i \in DOMAIN UpperChars : UpperChars[i] = c ->
         64 + (CHOOSE i \in DOMAIN UpperChars : UpperChars[i] = c)
    [] \E i \in DOMAIN LowerChars : LowerChars[i] = c ->
         96 + (CHOOSE i \in DOMAIN LowerChars : LowerChars[i] = c)

\* a < b for two str.

RECURSIVE TextLess(_, _)
TextLess(a, b) ==
  IF b = <<>> THEN FALSE
  ELSE IF a = <<>> THEN TRUE
  ELSE IF CharOrd(Head(a)) < CharOrd(Head(b)) THEN TRUE
  ELSE IF CharOrd(Head(a)) > CharOrd(Head(b)) THEN FALSE
  ELSE TextLess(Tail(a), Tail(b))

\* w in m  (substring test)
IsSubstring(w, m) ==
  \E i \in 0..(Len(m) - Len(w)) : SubSeq(m, i + 1, i + Len(w)) = w

(***************************************************************************)
(* expense_core.parse_date: datetime.strptime(s, "%Y-%m-%d").              *)
(* _strptime compiles the format to the regular expression                 *)
(*   (?P<Y>\d\d\d\d)-(?P<m>1[0-2]|0[1-9]|[1-9])-                            *)
(*   (?P<d>3[0-1]|[1-2]\d|0[1-9]|[1-9]| [1-9])                              *)
(* matches it at the start of the text, rejects unconverted trailing data, *)
(* and then builds the date, which rejects a day the month does not have.  *)
(***************************************************************************)

\* Positions of "-" in the text.
Dashes(s) == {i \in DOMAIN s : s[i] = "-"}

\* %m : 1[0-2] | 0[1-9] | [1-9]
MatchesMonth(t) ==
  \/ Len(t) = 2 /\ t[1] = "1" /\ t[2] \in {"0", "1", "2"}
  \/ Len(t) = 2 /\ t[1] = "0" /\ t[2] \in Digits \ {"0"}
  \/ Len(t) = 1 /\ t[1] \in Digits \ {"0"}

\* %d : 3[0-1] | [1-2]\d | 0[1-9] | [1-9] | " "[1-9]
MatchesDay(t) ==
  \/ Len(t) = 2 /\ t[1] = "3" /\ t[2] \in {"0", "1"}
  \/ Len(t) = 2 /\ t[1] \in {"1", "2"} /\ t[2] \in Digits
  \/ Len(t) = 2 /\ t[1] = "0" /\ t[2] \in Digits \ {"0"}
  \/ Len(t) = 1 /\ t[1] \in Digits \ {"0"}
  \/ Len(t) = 2 /\ t[1] = " " /\ t[2] \in Digits \ {"0"}

IsLeap(y) == y % 4 = 0 /\ (y % 100 # 0 \/ y % 400 = 0)

DaysInMonth(y, m) ==
  IF m = 2 THEN (IF IsLeap(y) THEN 29 ELSE 28)
  ELSE IF m \in {4, 6, 9, 11} THEN 30 ELSE 31

\* The (year, month, day) strptime extracts, given that the text matches.
DateParts(s) ==
  LET p1 == 5
      p2 == CHOOSE i \in Dashes(s) : i > p1
      mt == SubSeq(s, p1 + 1, p2 - 1)
      dt == SubSeq(s, p2 + 1, Len(s))
  IN  [y |-> Num(SubSeq(s, 1, 4)), m |-> Num(mt),
       d |-> Num(IF dt[1] = " " THEN Tail(dt) ELSE dt)]

\* The text matches the compiled regular expression and nothing remains.
MatchesDateFormat(s) ==
  /\ Len(s) >= 8
  /\ AllDigits(SubSeq(s, 1, 4))
  /\ s[5] = "-"
  /\ \E p2 \in Dashes(s) :
       /\ p2 > 5
       /\ MatchesMonth(SubSeq(s, 6, p2 - 1))
       /\ MatchesDay(SubSeq(s, p2 + 1, Len(s)))

parse_date(s) ==
  /\ MatchesDateFormat(s)
  /\ LET p == DateParts(s)
     IN  p.y >= 1 /\ p.d <= DaysInMonth(p.y, p.m)

(***************************************************************************)
(* Python int(text): optional surrounding whitespace, optional sign, then  *)
(* decimal digits with single underscores allowed between digits.          *)
(***************************************************************************)

Unsigned(t) == IF t # <<>> /\ t[1] \in {"+", "-"} THEN Tail(t) ELSE t

IsIntLiteral(s) ==
  LET b == Unsigned(strip(s))
  IN  /\ b # <<>>
      /\ \A i \in DOMAIN b : b[i] \in Digits \cup {"_"}
      /\ b[1] \in Digits
      /\ b[Len(b)] \in Digits
      /\ \A i \in 1..(Len(b) - 1) : ~(b[i] = "_" /\ b[i + 1] = "_")

\* int(s): err is TRUE where Python raises ValueError.
PyInt(s) ==
  IF ~IsIntLiteral(s) THEN [err |-> TRUE, val |-> 0]
  ELSE LET t == strip(s)
           b == Unsigned(t)
           ds == SelectSeq(b, LAMBDA c : c \in Digits)
       IN  [err |-> FALSE, val |-> IF t[1] = "-" THEN -Num(ds) ELSE Num(ds)]

\* A variant that parses with float(): digits with an optional fraction.
parse_amount_float(s) ==
  \/ ~PyInt(s).err
  \/ \E p \in DOMAIN s :
       /\ s[p] = "."
       /\ AllDigits(SubSeq(s, 1, p - 1)) /\ AllDigits(SubSeq(s, p + 1, Len(s)))
       /\ Len(s) > 1

parse_amount(s) == ~PyInt(s).err

(***************************************************************************)
(* expense_core.check_rows                                                 *)
(* A raw row is a function from some of the column names to text (a        *)
(* column the dict does not have is outside its DOMAIN; csv.DictReader     *)
(* gives None for a column a short line does not reach).                   *)
(***************************************************************************)

REQUIRED_COLUMNS == <<"date", "amount", "merchant", "category">>

\* r.get(col)
get(r, col) == IF col \in DOMAIN r THEN r[col] ELSE NoneVal

\* r.get(col, "")
getd(r, col) == IF col \in DOMAIN r THEN r[col] ELSE <<>>

\* v or ""
OrEmpty(v) == IF v = NoneVal THEN <<>> ELSE v

\* The reason texts (the source's are Japanese; the wording is translated).
MissingReason(col) == "missing column: " \o col
BlankReason(col) == "blank: " \o col
DateFormatReason == "date format differs (YYYY-MM-DD)"
AmountFormatReason == "amount is not a number"
DuplicateReason == "duplicate (same date+amount+merchant)"

\* One pass of the required-column loop.
ColumnReason(r, col) ==
  IF col \notin DOMAIN r THEN <<MissingReason(col)>>
  ELSE IF strip(OrEmpty(get(r, col))) = <<>> THEN <<BlankReason(col)>>
  ELSE <<>>

RECURSIVE ColumnReasons(_, _)
ColumnReasons(r, cols) ==
  IF cols = <<>> THEN <<>>
  ELSE ColumnReason(r, Head(cols)) \o ColumnReasons(r, Tail(cols))

DateReasons(r) ==
  LET d == strip(OrEmpty(get(r, "date")))
  IN  IF d # <<>> /\ ~parse_date(d) THEN <<DateFormatReason>> ELSE <<>>

AmountReasons(r) ==
  LET a == strip(OrEmpty(get(r, "amount")))
  IN  IF a # <<>> /\ ~parse_amount(a) THEN <<AmountFormatReason>> ELSE <<>>

\* A variant of the key that keeps the merchant's case.
DupKey_cased(r) ==
  <<strip(OrEmpty(get(r, "date"))),
    strip(OrEmpty(get(r, "amount"))),
    strip(OrEmpty(get(r, "merchant")))>>

\* (date_k, amount_k, merchant_k)
DupKey(r) ==
  <<strip(OrEmpty(get(r, "date"))),
    strip(OrEmpty(get(r, "amount"))),
    lower(strip(OrEmpty(get(r, "merchant"))))>>

\* if date_k and amount_k and merchant_k
HasDupKey(r) == LET k == DupKey(r) IN k[1] # <<>> /\ k[2] # <<>> /\ k[3] # <<>>

DupReasons(r, seen) ==
  IF HasDupKey(r) /\ DupKey(r) \in seen THEN <<DuplicateReason>> ELSE <<>>

\* A variant that records the key of a row only when its columns are complete.
SeenAdd_complete(r, seen) ==
  IF HasDupKey(r) /\ ColumnReasons(r, REQUIRED_COLUMNS) = <<>>
  THEN seen \cup {DupKey(r)} ELSE seen

\* seen after the row: the key is added unless it is already there.
SeenAdd(r, seen) == IF HasDupKey(r) THEN seen \cup {DupKey(r)} ELSE seen

\* A variant that checks the amount before the date.
RowReasons_amountfirst(r, seen) ==
  ColumnReasons(r, REQUIRED_COLUMNS) \o AmountReasons(r) \o DateReasons(r)
    \o DupReasons(r, seen)

RowReasons(r, seen) ==
  ColumnReasons(r, REQUIRED_COLUMNS) \o DateReasons(r) \o AmountReasons(r)
    \o DupReasons(r, seen)

\* " / ".join(reasons): the reasons with the separator between them.
RECURSIVE JoinReasons(_)
JoinReasons(rs) ==
  IF Len(rs) <= 1 THEN rs
  ELSE <<Head(rs), " / ">> \o JoinReasons(Tail(rs))

ErrorRecord(idx, r, reasons) ==
  [row |-> StrInt(idx), date |-> getd(r, "date"), amount |-> getd(r, "amount"),
   merchant |-> getd(r, "merchant"), category |-> getd(r, "category"),
   reason |-> JoinReasons(reasons)]

\* A variant that numbers an ok row from 1.
OkRecord_fromone(idx, r) ==
  [row |-> StrInt(idx - 1), date |-> strip(getd(r, "date")),
   amount |-> strip(getd(r, "amount")), merchant |-> strip(getd(r, "merchant")),
   category |-> strip(getd(r, "category"))]

OkRecord(idx, r) ==
  [row |-> StrInt(idx), date |-> strip(getd(r, "date")),
   amount |-> strip(getd(r, "amount")), merchant |-> strip(getd(r, "merchant")),
   category |-> strip(getd(r, "category"))]

\* A variant of the row loop that skips a duplicate row (continue) instead of
\* reporting it.
RECURSIVE CheckLoop_skipdup(_, _, _, _, _)
CheckLoop_skipdup(rs, i, seen, ok, errs) ==
  IF i > Len(rs) THEN [ok |-> ok, errors |-> errs]
  ELSE LET r == rs[i]
           reasons == RowReasons(r, seen)
       IN  IF DupReasons(r, seen) # <<>>
           THEN CheckLoop_skipdup(rs, i + 1, seen, ok, errs)
           ELSE IF reasons # <<>>
           THEN CheckLoop_skipdup(rs, i + 1, SeenAdd(r, seen), ok,
                                  Append(errs, ErrorRecord(i + 1, r, reasons)))
           ELSE CheckLoop_skipdup(rs, i + 1, SeenAdd(r, seen),
                                  Append(ok, OkRecord(i + 1, r)), errs)

\* The row loop: i is the position in rows, idx = i + 1 its row number.
RECURSIVE CheckLoop(_, _, _, _, _)
CheckLoop(rs, i, seen, ok, errs) ==
  IF i > Len(rs) THEN [ok |-> ok, errors |-> errs]
  ELSE LET r == rs[i]
           reasons == RowReasons(r, seen)
       IN  IF reasons # <<>>
           THEN CheckLoop(rs, i + 1, SeenAdd(r, seen), ok,
                          Append(errs, ErrorRecord(i + 1, r, reasons)))
           ELSE CheckLoop(rs, i + 1, SeenAdd(r, seen),
                          Append(ok, OkRecord(i + 1, r)), errs)

check_rows(rs) == CheckLoop(rs, 1, {}, <<>>, <<>>)

(***************************************************************************)
(* expense_core.normalize_ok_rows                                          *)
(***************************************************************************)

NormRecord(r) ==
  [row |-> r.row, date |-> strip(r.date), amount |-> PyInt(strip(r.amount)).val,
   merchant |-> strip(r.merchant), category |-> strip(r.category)]

\* int() raises ValueError on some record: the function does not return.
NormalizeFails(ok) == \E i \in DOMAIN ok : PyInt(strip(ok[i].amount)).err

normalize_ok_rows(ok) == [i \in DOMAIN ok |-> NormRecord(ok[i])]

(***************************************************************************)
(* rules.load_rules                                                        *)
(* The JSON document is a function from some of its keys to values; the    *)
(* optional integers of limits stay optional by being outside the DOMAIN   *)
(* (lim.get(key) is None), every other missing value is NoneVal.           *)
(***************************************************************************)

W_warn == <<"w", "a", "r", "n">>
W_ignore == <<"i", "g", "n", "o", "r", "e">>
W_fallback == <<"f", "a", "l", "l", "b", "a", "c", "k">>

\* JSON numbers in a place where the program expects a text (json.loads
\* returns them as int): 0 is falsy, 5 and 20260110 are truthy.
JsonZero == <<"<0>">>
JsonFive == <<"<5>">>
JsonDateNumber == <<"<20260110>">>

\* isinstance(v, str)
IsStr(v) == v \notin {NoneVal, JsonZero, JsonFive, JsonDateNumber}

\* bool(v)
Truthy(v) == v \notin {NoneVal, <<>>, JsonZero}

\* (data.get("unknown_category_mode") or "warn").lower() raises
\* AttributeError when the value is truthy and not a str.
LoadFails(data) ==
  LET v == get(data, "unknown_category_mode")
  IN  Truthy(v) /\ ~IsStr(v)

\* (data.get("unknown_category_mode") or "warn").lower(), normalised
LoadMode(data) ==
  LET v == get(data, "unknown_category_mode")
      m == lower(IF Truthy(v) THEN v ELSE W_warn)
  IN  IF m \notin {W_warn, W_ignore, W_fallback} THEN W_warn ELSE m

\* data.get(key) for a key that holds a list
GetList(data, key) == IF key \in DOMAIN data THEN data[key] ELSE NoneList

\* data.get(key) or {}
GetDict(data, key) == IF key \in DOMAIN data THEN data[key] ELSE <<>>

load_rules(data) ==
  [allowed_categories |-> GetList(data, "allowed_categories"),
   unknown_category_mode |-> LoadMode(data),
   fallback_category |-> get(data, "fallback_category"),
   banned_words |-> GetList(data, "banned_words"),
   date_range |-> [min |-> get(GetDict(data, "date_range"), "min"),
                   max |-> get(GetDict(data, "date_range"), "max")],
   limits |-> GetDict(data, "limits")]

(***************************************************************************)
(* rules.apply_rules                                                       *)
(***************************************************************************)

\* The default of fallback_category (the source's text is Japanese, "sonota").
FallbackDefault == <<"s", "o", "n", "o", "t", "a">>

\* strptime raises TypeError for a value that is not a str; every Exception
\* is caught.
_valid_date(s) == IsStr(s) /\ parse_date(s)

\* rules.allowed_categories or []  /  rules.banned_words or []
OrEmptyList(v) == IF v = NoneList THEN <<>> ELSE v

Elements(list) == {list[i] : i \in DOMAIN list}

\* A variant without the default: rules.fallback_category as configured.
FallbackOf_asis(rules) == rules.fallback_category

\* rules.fallback_category or <default>
FallbackOf(rules) ==
  IF rules.fallback_category = NoneVal \/ rules.fallback_category = <<>>
  THEN FallbackDefault ELSE rules.fallback_category

\* date_min / date_max: the bound when it is set and valid, else None.
DateBound(v) == IF Truthy(v) /\ _valid_date(v) THEN v ELSE NoneVal

\* dict[k] = dict.get(k, 0) + amount
Inc(dict, k, amount) ==
  IF k \in DOMAIN dict THEN [dict EXCEPT ![k] = @ + amount]
  ELSE [x \in DOMAIN dict \cup {k} |-> IF x = k THEN amount ELSE dict[x]]

\* str(r.get("row") or idx)
RowId(r, idx) == IF r.row = NoneVal \/ r.row = <<>> THEN StrInt(idx) ELSE r.row

Warning(kind, row, date, month, category, merchant, amount, message) ==
  [kind |-> kind, row |-> row, date |-> date, month |-> month,
   category |-> category, merchant |-> merchant, amount |-> amount,
   message |-> message]

\* A variant that applies the category check with an empty allowed set too.
IsUnknown_noskip(rules, category) ==
  category \notin Elements(OrEmptyList(rules.allowed_categories))

\* is_unknown
IsUnknown(rules, category) ==
  LET allowed_set == Elements(OrEmptyList(rules.allowed_categories))
  IN  allowed_set # {} /\ category \notin allowed_set

\* category_for_clean
CategoryForClean(rules, category) ==
  IF IsUnknown(rules, category) /\ rules.unknown_category_mode = W_fallback
  THEN FallbackOf(rules) ELSE category

\* A variant that leaves category_for_limit at the row's own category.
CategoryForLimit_own(rules, category) == category

\* category_for_limit
CategoryForLimit(rules, category) ==
  IF IsUnknown(rules, category) /\ rules.unknown_category_mode = W_fallback
  THEN FallbackOf(rules) ELSE category

\* The category_unknown warning of a row, if any.
CategoryWarnings(rules, r, idx) ==
  LET month == Prefix(r.date, 7)
      fb == FallbackOf(rules)
  IN  IF ~IsUnknown(rules, r.category) \/ rules.unknown_category_mode = W_ignore
      THEN <<>>
      ELSE IF rules.unknown_category_mode = W_fallback
      THEN <<Warning("category_unknown", RowId(r, idx), r.date, month, r.category,
                     r.merchant, StrInt(r.amount),
                     <<"unregistered category, treated as ">> \o fb \o <<": ">>
                       \o r.category)>>
      ELSE <<Warning("category_unknown", RowId(r, idx), r.date, month, r.category,
                     r.merchant, StrInt(r.amount),
                     <<"unregistered category: ">> \o r.category)>>

\* A variant of the banned-word scan without the break.
RECURSIVE BannedWarnings_nobreak(_, _, _, _)
BannedWarnings_nobreak(words, rules, r, idx) ==
  IF words = <<>> THEN <<>>
  ELSE LET w == Head(words)
       IN  (IF w # <<>> /\ IsSubstring(w, r.merchant)
            THEN <<Warning("banned_word", RowId(r, idx), r.date, Prefix(r.date, 7),
                           CategoryForClean(rules, r.category), r.merchant,
                           StrInt(r.amount), <<"contains banned word: ">> \o w)>>
            ELSE <<>>)
             \o BannedWarnings_nobreak(Tail(words), rules, r, idx)

\* The banned_word warning of a row: the first word that matches, then break.
RECURSIVE BannedWarnings(_, _, _, _)
BannedWarnings(words, rules, r, idx) ==
  IF words = <<>> THEN <<>>
  ELSE LET w == Head(words)
       IN  IF w # <<>> /\ IsSubstring(w, r.merchant)
           THEN <<Warning("banned_word", RowId(r, idx), r.date, Prefix(r.date, 7),
                          CategoryForClean(rules, r.category), r.merchant,
                          StrInt(r.amount), <<"contains banned word: ">> \o w)>>
           ELSE BannedWarnings(Tail(words), rules, r, idx)

\* A variant that tests the max bound only when the date is not below min.
DateRangeWarnings_elif(rules, r, idx) ==
  LET date_min == DateBound(rules.date_range.min)
      date_max == DateBound(rules.date_range.max)
      cat == CategoryForClean(rules, r.category)
      month == Prefix(r.date, 7)
  IN  IF date_min # NoneVal /\ TextLess(r.date, date_min)
      THEN <<Warning("date_range", RowId(r, idx), r.date, month, cat, r.merchant,
                     StrInt(r.amount), <<"date out of range (min=">> \o date_min \o <<")">>)>>
      ELSE IF date_max # NoneVal /\ TextLess(date_max, r.date)
      THEN <<Warning("date_range", RowId(r, idx), r.date, month, cat, r.merchant,
                     StrInt(r.amount), <<"date out of range (max=">> \o date_max \o <<")">>)>>
      ELSE <<>>

\* The date_range warnings of a row: below min, then above max.
DateRangeWarnings(rules, r, idx) ==
  LET date_min == DateBound(rules.date_range.min)
      date_max == DateBound(rules.date_range.max)
      cat == CategoryForClean(rules, r.category)
      month == Prefix(r.date, 7)
  IN  (IF date_min # NoneVal /\ TextLess(r.date, date_min)
       THEN <<Warning("date_range", RowId(r, idx), r.date, month, cat, r.merchant,
                      StrInt(r.amount), <<"date out of range (min=">> \o date_min \o <<")">>)>>
       ELSE <<>>)
      \o
      (IF date_max # NoneVal /\ TextLess(date_max, r.date)
       THEN <<Warning("date_range", RowId(r, idx), r.date, month, cat, r.merchant,
                      StrInt(r.amount), <<"date out of range (max=">> \o date_max \o <<")">>)>>
       ELSE <<>>)

\* A variant that runs the banned-word check before the category check.
RowWarnings_bannedfirst(rules, r, idx) ==
  BannedWarnings(OrEmptyList(rules.banned_words), rules, r, idx)
    \o CategoryWarnings(rules, r, idx)
    \o DateRangeWarnings(rules, r, idx)

RowWarnings(rules, r, idx) ==
  CategoryWarnings(rules, r, idx)
    \o BannedWarnings(OrEmptyList(rules.banned_words), rules, r, idx)
    \o DateRangeWarnings(rules, r, idx)

\* The input record r after its iteration: r2 = dict(r) is a copy, so the
\* assignment to r2["category"] leaves r as it was.
InputRecord(rules, r) == r

\* r2 = dict(r); r2["category"] = category_for_clean
CleanRecord(rules, r) == [r EXCEPT !.category = CategoryForClean(rules, r.category)]

\* The locals of apply_rules before the first row.
PassOneStart ==
  [warnings |-> <<>>, clean_rows |-> <<>>, by_day_total |-> <<>>,
   by_month_total |-> <<>>, by_day_cat |-> <<>>, by_month_cat |-> <<>>]

\* A variant of the iteration that keeps a row with warnings out of clean_rows.
PassOneStep_dropwarned(rules, r, idx, st) ==
  LET month == Prefix(r.date, 7)
      category_for_limit == CategoryForLimit(rules, r.category)
  IN  [warnings |-> st.warnings \o RowWarnings(rules, r, idx),
       clean_rows |-> IF RowWarnings(rules, r, idx) = <<>>
                      THEN Append(st.clean_rows, CleanRecord(rules, r))
                      ELSE st.clean_rows,
       by_day_total |-> Inc(st.by_day_total, r.date, r.amount),
       by_month_total |-> Inc(st.by_month_total, month, r.amount),
       by_day_cat |-> Inc(st.by_day_cat, <<r.date, category_for_limit>>, r.amount),
       by_month_cat |-> Inc(st.by_month_cat, <<month, category_for_limit>>, r.amount)]

\* One iteration of the row loop.
PassOneStep(rules, r, idx, st) ==
  LET month == Prefix(r.date, 7)
      category_for_limit == CategoryForLimit(rules, r.category)
  IN  [warnings |-> st.warnings \o RowWarnings(rules, r, idx),
       clean_rows |-> Append(st.clean_rows, CleanRecord(rules, r)),
       by_day_total |-> Inc(st.by_day_total, r.date, r.amount),
       by_month_total |-> Inc(st.by_month_total, month, r.amount),
       by_day_cat |-> Inc(st.by_day_cat, <<r.date, category_for_limit>>, r.amount),
       by_month_cat |-> Inc(st.by_month_cat, <<month, category_for_limit>>, r.amount)]

\* for idx, r in enumerate(rows, start=2)
RECURSIVE PassOne(_, _, _, _)
PassOne(rules, rs, i, st) ==
  IF i > Len(rs) THEN st
  ELSE PassOne(rules, rs, i + 1, PassOneStep(rules, rs[i], i + 1, st))

\* sorted() of a set of str.
RECURSIVE SortedTexts(_)
SortedTexts(S) ==
  IF S = {} THEN <<>>
  ELSE LET m == CHOOSE x \in S : \A y \in S \ {x} : TextLess(x, y)
       IN  <<m>> \o SortedTexts(S \ {m})

\* (a, b) < (c, d) for two tuples of str.
PairLess(p, q) == TextLess(p[1], q[1]) \/ (p[1] = q[1] /\ TextLess(p[2], q[2]))

\* sorted() of a set of pairs of str.
RECURSIVE SortedPairs(_)
SortedPairs(S) ==
  IF S = {} THEN <<>>
  ELSE LET m == CHOOSE x \in S : \A y \in S \ {x} : PairLess(x, y)
       IN  <<m>> \o SortedPairs(S \ {m})

\* A variant that also warns when the total equals the limit.
Exceeds_orequal(total, limit) == total >= limit

\* total > limit
Exceeds(total, limit) == total > limit

\* The warnings of one of the two total limits, over the sorted keys.
RECURSIVE TotalLimitWarnings(_, _, _, _)
TotalLimitWarnings(kind, keys, totals, limit) ==
  IF keys = <<>> THEN <<>>
  ELSE LET k == Head(keys)
           total == totals[k]
           w == IF kind = "limit_daily_total"
                THEN Warning(kind, <<>>, k, Prefix(k, 7), <<>>, <<>>, StrInt(total),
                             <<"daily total over limit: ">> \o StrInt(total) \o <<" > ">>
                               \o StrInt(limit))
                ELSE Warning(kind, <<>>, <<>>, k, <<>>, <<>>, StrInt(total),
                             <<"monthly total over limit: ">> \o StrInt(total) \o <<" > ">>
                               \o StrInt(limit))
       IN  (IF Exceeds(total, limit) THEN <<w>> ELSE <<>>)
             \o TotalLimitWarnings(kind, Tail(keys), totals, limit)

\* A variant that reads the threshold with map.get(c, 0).
LimitVal_zero(map, c) ==
  IF c \in DOMAIN map THEN [none |-> FALSE, val |-> map[c]] ELSE [none |-> FALSE, val |-> 0]

\* limit_val = map.get(c): none is TRUE where it is None.
LimitVal(map, c) ==
  IF c \in DOMAIN map THEN [none |-> FALSE, val |-> map[c]] ELSE [none |-> TRUE, val |-> 0]

\* The warnings of one of the two per-category limits, over the sorted keys.
RECURSIVE CategoryLimitWarnings(_, _, _, _)
CategoryLimitWarnings(kind, keys, totals, map) ==
  IF keys = <<>> THEN <<>>
  ELSE LET k == Head(keys)
           c == k[2]
           total == totals[k]
           limit_val == LimitVal(map, c)
           w == IF kind = "limit_category_daily"
                THEN Warning(kind, <<>>, k[1], Prefix(k[1], 7), c, <<>>, StrInt(total),
                             <<"category daily total over limit: ">> \o c \o <<" ">>
                               \o StrInt(total) \o <<" > ">> \o StrInt(limit_val.val))
                ELSE Warning(kind, <<>>, <<>>, k[1], c, <<>>, StrInt(total),
                             <<"category monthly total over limit: ">> \o c \o <<" ">>
                               \o StrInt(total) \o <<" > ">> \o StrInt(limit_val.val))
       IN  (IF ~limit_val.none /\ Exceeds(total, limit_val.val) THEN <<w>> ELSE <<>>)
             \o CategoryLimitWarnings(kind, Tail(keys), totals, map)

\* The second pass: the four limit checks in the order of the source.
PassTwo(lim, st) ==
  (IF "daily_total" \in DOMAIN lim
   THEN TotalLimitWarnings("limit_daily_total", SortedTexts(DOMAIN st.by_day_total),
                           st.by_day_total, lim.daily_total)
   ELSE <<>>)
  \o
  (IF "monthly_total" \in DOMAIN lim
   THEN TotalLimitWarnings("limit_monthly_total", SortedTexts(DOMAIN st.by_month_total),
                           st.by_month_total, lim.monthly_total)
   ELSE <<>>)
  \o
  (IF "category_daily" \in DOMAIN lim /\ DOMAIN lim.category_daily # {}
   THEN CategoryLimitWarnings("limit_category_daily", SortedPairs(DOMAIN st.by_day_cat),
                              st.by_day_cat, lim.category_daily)
   ELSE <<>>)
  \o
  (IF "category_monthly" \in DOMAIN lim /\ DOMAIN lim.category_monthly # {}
   THEN CategoryLimitWarnings("limit_category_monthly", SortedPairs(DOMAIN st.by_month_cat),
                              st.by_month_cat, lim.category_monthly)
   ELSE <<>>)

\* The result and the final accumulators of apply_rules(rows, rules).
apply_rules(rs, rules) ==
  LET st == PassOne(rules, rs, 1, PassOneStart)
  IN  [st EXCEPT !.warnings = st.warnings \o PassTwo(rules.limits, st)]

(***************************************************************************)
(* expense_core.make_summary                                               *)
(***************************************************************************)

T_month == <<"m", "o", "n", "t", "h">>
T_category == <<"c", "a", "t", "e", "g", "o", "r", "y">>
T_top_ == <<"t", "o", "p", "_">>
T_weekday == <<"w", "e", "e", "k", "d", "a", "y">>
T_total_amount == <<"t", "o", "t", "a", "l", "_", "a", "m", "o", "u", "n", "t">>
T_count == <<"c", "o", "u", "n", "t">>
T_average == <<"a", "v", "e", "r", "a", "g", "e">>
T_median == <<"m", "e", "d", "i", "a", "n">>
T_min == <<"m", "i", "n">>
T_max == <<"m", "a", "x">>

Entry(type, key, value) == [type |-> type, key |-> key, value |-> value]

\* order = ["Mon", ..., "Sun"]
WeekdayOrder ==
  << <<"M", "o", "n">>, <<"T", "u", "e">>, <<"W", "e", "d">>, <<"T", "h", "u">>,
     <<"F", "r", "i">>, <<"S", "a", "t">>, <<"S", "u", "n">> >>

\* Days from 0001-01-01 (a Monday) to the first day of the year.
DaysBeforeYear(y) ==
  LET p == y - 1 IN p * 365 + p \div 4 - p \div 100 + p \div 400

RECURSIVE DaysBeforeMonth(_, _)
DaysBeforeMonth(y, m) ==
  IF m = 1 THEN 0 ELSE DaysBeforeMonth(y, m - 1) + DaysInMonth(y, m - 1)

\* datetime.strptime(date_str, "%Y-%m-%d").strftime("%a")
WeekdayName(date_str) ==
  LET p == DateParts(date_str)
      n == DaysBeforeYear(p.y) + DaysBeforeMonth(p.y, p.m) + p.d - 1
  IN  WeekdayOrder[(n % 7) + 1]

\* The position of a key in an insertion-ordered dict (0 when absent).
IndexOf(items, k) ==
  IF \E i \in DOMAIN items : items[i][1] = k
  THEN CHOOSE i \in DOMAIN items : items[i][1] = k
  ELSE 0

\* A variant that assigns the amount instead of adding it.
AddTo_overwrite(items, k, amount) ==
  IF IndexOf(items, k) = 0 THEN Append(items, <<k, amount>>)
  ELSE [items EXCEPT ![IndexOf(items, k)] = <<k, amount>>]

\* defaultdict(int)[k] += amount, the dict kept as its items in insertion order.
AddTo(items, k, amount) ==
  IF IndexOf(items, k) = 0 THEN Append(items, <<k, amount>>)
  ELSE [items EXCEPT ![IndexOf(items, k)] = <<k, @[2] + amount>>]

MonthOf(r) == Prefix(r.date, 7)
CategoryOf(r) == r.category
MerchantOf(r) == r.merchant
WeekdayOf(r) == WeekdayName(r.date)

\* The key of a record on an axis of the summary.
KeyOf(axis, r) ==
  IF axis = "month" THEN MonthOf(r)
  ELSE IF axis = "category" THEN CategoryOf(r)
  ELSE IF axis = "merchant" THEN MerchantOf(r)
  ELSE WeekdayOf(r)

\* by_<axis> after the loop over ok_rows.
RECURSIVE GroupBy(_, _, _)
GroupBy(rs, axis, items) ==
  IF rs = <<>> THEN items
  ELSE GroupBy(Tail(rs), axis, AddTo(items, KeyOf(axis, Head(rs)), Head(rs).amount))

\* The total stored under a key.
TotalOf(items, k) == items[IndexOf(items, k)][2]

\* The data rows of a table whose keys are given in output order.
TableRows(type, keys, items) ==
  [i \in DOMAIN keys |-> Entry(type, keys[i], StrInt(TotalOf(items, keys[i])))]

\* Insert an item after every item whose total is not smaller (stable,
\* descending): sorted(..., key=lambda x: x[1], reverse=True).
RECURSIVE InsertDesc(_, _)
InsertDesc(sorted, item) ==
  IF sorted = <<>> THEN <<item>>
  ELSE IF Head(sorted)[2] >= item[2] THEN <<Head(sorted)>> \o InsertDesc(Tail(sorted), item)
  ELSE <<item>> \o sorted

RECURSIVE SortDesc(_, _)
SortDesc(items, acc) ==
  IF items = <<>> THEN acc ELSE SortDesc(Tail(items), InsertDesc(acc, Head(items)))

\* seq[:n] with Python's meaning of a negative n.
SliceTo(seq, n) ==
  LET stop == IF n < 0 THEN (IF Len(seq) + n < 0 THEN 0 ELSE Len(seq) + n)
              ELSE (IF n > Len(seq) THEN Len(seq) ELSE n)
  IN  SubSeq(seq, 1, stop)

\* merchants_sorted
MerchantsSorted(by_merchant, top_n) == SliceTo(SortDesc(by_merchant, <<>>), top_n)

\* A variant that rounds the quotient down (x // y).
TruncDiv_floor(x, y) == x \div y

\* int(x / y): the quotient truncated towards zero.
TruncDiv(x, y) == IF x >= 0 THEN x \div y ELSE -((-x) \div y)

RECURSIVE SumSeq(_)
SumSeq(xs) == IF xs = <<>> THEN 0 ELSE Head(xs) + SumSeq(Tail(xs))

RECURSIVE InsertAsc(_, _)
InsertAsc(sorted, x) ==
  IF sorted = <<>> THEN <<x>>
  ELSE IF Head(sorted) <= x THEN <<Head(sorted)>> \o InsertAsc(Tail(sorted), x)
  ELSE <<x>> \o sorted

RECURSIVE SortAsc(_, _)
SortAsc(xs, acc) == IF xs = <<>> THEN acc ELSE SortAsc(Tail(xs), InsertAsc(acc, Head(xs)))

\* int(mean(amounts))
IntMean(amounts) == TruncDiv(SumSeq(amounts), Len(amounts))

\* int(median(amounts))
IntMedian(amounts) ==
  LET srt == SortAsc(amounts, <<>>)
      n == Len(srt)
  IN  IF n % 2 = 1 THEN srt[(n + 1) \div 2]
      ELSE TruncDiv(srt[n \div 2] + srt[n \div 2 + 1], 2)

\* A variant that guards every statistic, count included, by "if amounts".
StatsRows_guarded(amounts) ==
  IF amounts # <<>>
  THEN <<Entry("stats", T_count, StrInt(Len(amounts))),
         Entry("stats", T_average, StrInt(IntMean(amounts))),
         Entry("stats", T_median, StrInt(IntMedian(amounts))),
         Entry("stats", T_min, StrInt(SortAsc(amounts, <<>>)[1])),
         Entry("stats", T_max, StrInt(SortAsc(amounts, <<>>)[Len(amounts)]))>>
  ELSE <<>>

StatsRows(amounts) ==
  <<Entry("stats", T_count, StrInt(Len(amounts)))>>
  \o (IF amounts # <<>>
      THEN <<Entry("stats", T_average, StrInt(IntMean(amounts))),
             Entry("stats", T_median, StrInt(IntMedian(amounts))),
             Entry("stats", T_min, StrInt(SortAsc(amounts, <<>>)[1])),
             Entry("stats", T_max, StrInt(SortAsc(amounts, <<>>)[Len(amounts)]))>>
      ELSE <<>>)

make_summary(rs, top_n) ==
  LET by_month == GroupBy(rs, "month", <<>>)
      by_category == GroupBy(rs, "category", <<>>)
      by_merchant == GroupBy(rs, "merchant", <<>>)
      by_weekday == GroupBy(rs, "weekday", <<>>)
      amounts == [i \in DOMAIN rs |-> rs[i].amount]
      merchants_sorted == MerchantsSorted(by_merchant, top_n)
  IN  <<Entry("month_total", T_month, T_total_amount)>>
      \o TableRows("month_total",
                   SortedTexts({by_month[i][1] : i \in DOMAIN by_month}), by_month)
      \o <<Entry("category_total", T_category, T_total_amount)>>
      \o TableRows("category_total",
                   SortedTexts({by_category[i][1] : i \in DOMAIN by_category}), by_category)
      \o <<Entry("merchant_top", T_top_ \o StrInt(top_n), T_total_amount)>>
      \o [i \in DOMAIN merchants_sorted |->
            Entry("merchant_top", merchants_sorted[i][1], StrInt(merchants_sorted[i][2]))]
      \o <<Entry("weekday_total", T_weekday, T_total_amount)>>
      \o TableRows("weekday_total",
                   SelectSeq(WeekdayOrder, LAMBDA wd : IndexOf(by_weekday, wd) # 0),
                   by_weekday)
      \o StatsRows(amounts)

(***************************************************************************)
(* expense_core.write_csv and read_csv (csv.DictWriter / csv.DictReader,   *)
(* the excel dialect). A file is its text, a sequence of characters.       *)
(***************************************************************************)

ColumnText(col) ==
  CASE col = "row" -> <<"r", "o", "w">>
    [] col = "date" -> <<"d", "a", "t", "e">>
    [] col = "amount" -> <<"a", "m", "o", "u", "n", "t">>
    [] col = "merchant" -> <<"m", "e", "r", "c", "h", "a", "n", "t">>
    [] col = "category" -> <<"c", "a", "t", "e", "g", "o", "r", "y">>

\* The key a header cell gives the dicts of DictReader.
ColumnName(text) ==
  IF \E col \in {"row", "date", "amount", "merchant", "category"} : ColumnText(col) = text
  THEN CHOOSE col \in {"row", "date", "amount", "merchant", "category"} :
         ColumnText(col) = text
  ELSE "other"

\* The writer quotes a field that holds the delimiter, the quote character
\* or a character of the line terminator.
NeedsQuote(text) == \E i \in DOMAIN text : text[i] \in {",", "\"", "\r", "\n"}

RECURSIVE DoubleQuotes(_)
DoubleQuotes(text) ==
  IF text = <<>> THEN <<>>
  ELSE (IF Head(text) = "\"" THEN <<"\"", "\"">> ELSE <<Head(text)>>)
         \o DoubleQuotes(Tail(text))

CsvField(text) ==
  IF NeedsQuote(text) THEN <<"\"">> \o DoubleQuotes(text) \o <<"\"">> ELSE text

\* One written line: the fields joined by "," and ended by "\r\n".
RECURSIVE CsvJoin(_)
CsvJoin(fields) ==
  IF fields = <<>> THEN <<>>
  ELSE IF Len(fields) = 1 THEN CsvField(fields[1])
  ELSE CsvField(Head(fields)) \o <<",">> \o CsvJoin(Tail(fields))

CsvLine(fields) == CsvJoin(fields) \o <<"\r", "\n">>

\* str(value) of a cell: amount is an int after normalize_ok_rows.
CellText(r, col) == IF col = "amount" THEN StrInt(r.amount) ELSE r[col]

RECURSIVE CsvBody(_, _)
CsvBody(rs, fieldnames) ==
  IF rs = <<>> THEN <<>>
  ELSE CsvLine([i \in DOMAIN fieldnames |-> CellText(Head(rs), fieldnames[i])])
         \o CsvBody(Tail(rs), fieldnames)

\* The text write_csv(path, rows, fieldnames) leaves in the file.
write_csv(rs, fieldnames) ==
  CsvLine([i \in DOMAIN fieldnames |-> ColumnText(fieldnames[i])]) \o CsvBody(rs, fieldnames)

\* csv.reader's state machine over the characters of the file. st.mode is
\* START_RECORD, START_FIELD, IN_FIELD, IN_QUOTED_FIELD, QUOTE_IN_QUOTED_FIELD
\* or EAT_CRNL; st.recs the records read, st.rec the fields of the current
\* record, st.field the characters of the current field.
EndRecord(st, withField) ==
  [mode |-> "EAT_CRNL",
   recs |-> Append(st.recs, IF withField THEN Append(st.rec, st.field) ELSE st.rec),
   rec |-> <<>>, field |-> <<>>]

SaveField(st) ==
  [st EXCEPT !.mode = "START_FIELD", !.rec = Append(st.rec, st.field), !.field = <<>>]

AddChar(st, c, mode) == [st EXCEPT !.mode = mode, !.field = Append(st.field, c)]

ReaderStep(st, c) ==
  LET s0 == IF st.mode = "EAT_CRNL" THEN [st EXCEPT !.mode = "START_RECORD"] ELSE st
  IN  IF st.mode = "EAT_CRNL" /\ c \in {"\r", "\n"} THEN st
      ELSE IF s0.mode = "START_RECORD" /\ c \in {"\r", "\n"} THEN EndRecord(s0, FALSE)
      ELSE IF s0.mode \in {"START_RECORD", "START_FIELD"}
      THEN IF c \in {"\r", "\n"} THEN EndRecord(s0, TRUE)
           ELSE IF c = "\"" THEN [s0 EXCEPT !.mode = "IN_QUOTED_FIELD"]
           ELSE IF c = "," THEN SaveField(s0)
           ELSE AddChar(s0, c, "IN_FIELD")
      ELSE IF s0.mode = "IN_FIELD"
      THEN IF c \in {"\r", "\n"} THEN EndRecord(s0, TRUE)
           ELSE IF c = "," THEN SaveField(s0)
           ELSE AddChar(s0, c, "IN_FIELD")
      ELSE IF s0.mode = "IN_QUOTED_FIELD"
      THEN IF c = "\"" THEN [s0 EXCEPT !.mode = "QUOTE_IN_QUOTED_FIELD"]
           ELSE AddChar(s0, c, "IN_QUOTED_FIELD")
      ELSE \* QUOTE_IN_QUOTED_FIELD
           IF c = "\"" THEN AddChar(s0, c, "IN_QUOTED_FIELD")
           ELSE IF c = "," THEN SaveField(s0)
           ELSE IF c \in {"\r", "\n"} THEN EndRecord(s0, TRUE)
           ELSE AddChar(s0, c, "IN_FIELD")

\* The reader's state after the characters lo..hi of the text, read in order.
\* The range is halved, and the state after the first half is computed before
\* the second half is entered, to keep the evaluation shallow.
RECURSIVE ReaderRun(_, _, _, _)
ReaderRun(text, lo, hi, st) ==
  IF lo > hi THEN st
  ELSE IF lo = hi THEN ReaderStep(st, text[lo])
  ELSE LET mid == (lo + hi) \div 2
           left == ReaderRun(text, lo, mid, st)
       IN  IF left.mode = "" THEN left ELSE ReaderRun(text, mid + 1, hi, left)

\* The records csv.reader yields (a blank line yields the empty record; a
\* last line without a line end is a record too).
CsvRecords(text) ==
  LET st == ReaderRun(text, 1, Len(text),
                      [mode |-> "START_RECORD", recs |-> <<>>, rec |-> <<>>, field |-> <<>>])
  IN  IF st.mode \in {"START_RECORD", "EAT_CRNL"} THEN st.recs
      ELSE Append(st.recs, Append(st.rec, st.field))

\* dict(zip(fieldnames, row)), the columns a short row lacks set to None.
DictOf(names, rec) ==
  [col \in {ColumnName(names[i]) : i \in DOMAIN names} |->
     LET i == CHOOSE j \in DOMAIN names : ColumnName(names[j]) = col
              /\ \A k \in DOMAIN names : ColumnName(names[k]) = col => k <= j
     IN  IF i <= Len(rec) THEN rec[i] ELSE NoneVal]

\* list(csv.DictReader(f)): the first record names the columns, blank lines
\* are skipped.
read_csv(text) ==
  LET recs == CsvRecords(text)
      data == IF recs = <<>> THEN <<>>
              ELSE SelectSeq(Tail(recs), LAMBDA rec : rec # <<>>)
  IN  [i \in DOMAIN data |-> DictOf(recs[1], data[i])]

(***************************************************************************)
(* Input texts.                                                            *)
(***************************************************************************)

D_Jan10 == <<"2", "0", "2", "6", "-", "0", "1", "-", "1", "0">>
D_Jan11Padded == <<" ", "2", "0", "2", "6", "-", "0", "1", "-", "1", "1">>
D_Jan10Padded == <<" ", "2", "0", "2", "6", "-", "0", "1", "-", "1", "0">>
D_Feb01 == <<"2", "0", "2", "6", "-", "0", "2", "-", "0", "1">>
D_Slashes == <<"2", "0", "2", "6", "/", "0", "1", "/", "1", "0">>
D_ShortMonth == <<"2", "0", "2", "6", "-", "1", "-", "1", "0">>

A_1200 == <<"1", "2", "0", "0">>
A_1200Padded == <<"1", "2", "0", "0", " ">>
A_01200 == <<"0", "1", "2", "0", "0">>
A_500 == <<"5", "0", "0">>
A_500Padded == <<"5", "0", "0", " ">>
A_Neg501 == <<"-", "5", "0", "1">>
A_Decimal == <<"1", "2", ".", "5">>
A_Letters == <<"a", "b", "c">>

M_Acme == <<"A", "c", "m", "e">>
M_ACME == <<"A", "C", "M", "E">>
M_AcmePadded == <<" ", "A", "c", "m", "e", " ">>
M_Bob == <<"B", "o", "b">>
M_BobPadded == <<" ", "B", "o", "b">>

C_Food == <<"F", "o", "o", "d">>
C_Travel == <<"T", "r", "a", "v", "e", "l">>
C_TravelPadded == <<"T", "r", "a", "v", "e", "l", " ">>
C_Other == <<"O", "t", "h", "e", "r">>
C_Blank == <<" ", " ">>

Row(d, a, m, c) == [date |-> d, amount |-> a, merchant |-> m, category |-> c]

\* The rows an input file can hold.
RowPool ==
  { Row(D_Jan10, A_1200, M_Acme, C_Food),
    Row(D_Jan10, A_1200, M_ACME, C_Food),
    Row(D_Jan10, A_01200, M_Acme, C_Travel),
    Row(D_Jan11Padded, A_500Padded, M_BobPadded, C_TravelPadded),
    Row(D_ShortMonth, A_500, M_ACME, C_Food),
    Row(D_Feb01, A_Decimal, M_Acme, C_Food),
    Row(D_Jan10Padded, A_1200Padded, M_AcmePadded, C_Blank),
    Row(D_Feb01, A_Neg501, M_Bob, C_Travel),
    [date |-> <<>>, amount |-> NoneVal, merchant |-> M_Bob],
    Row(D_Slashes, A_Letters, M_Bob, C_Food) }

\* The largest number of data rows of an input file.
MaxRows == 3

RowSeqs == UNION {[1..n -> RowPool] : n \in 0..MaxRows}

W_Fallback == <<"F", "a", "l", "l", "b", "a", "c", "k">>
W_strict == <<"s", "t", "r", "i", "c", "t">>
D_Jan11 == <<"2", "0", "2", "6", "-", "0", "1", "-", "1", "1">>
D_Jan31 == <<"2", "0", "2", "6", "-", "0", "1", "-", "3", "1">>

\* A one-entry and a two-entry category map.
Map1(c, v) == [x \in {c} |-> v]
Map2(c, v, d, w) == [x \in {c, d} |-> IF x = c THEN v ELSE w]

\* The rule documents a rules.json can hold.
RulesPool ==
  { <<>>,
    [allowed_categories |-> <<C_Food>>, unknown_category_mode |-> W_fallback,
     fallback_category |-> C_Other, banned_words |-> << <<"o", "b">>, M_Bob >>,
     limits |-> [daily_total |-> 1300,
                 category_daily |-> Map2(C_Other, 400, C_Food, 1000),
                 category_monthly |-> Map1(C_Other, 400)]],
    [allowed_categories |-> <<C_Food>>, unknown_category_mode |-> W_Fallback,
     limits |-> [monthly_total |-> 1500, category_monthly |-> Map1(C_Travel, 100)]],
    [allowed_categories |-> <<C_Food>>, unknown_category_mode |-> W_fallback,
     fallback_category |-> C_Travel,
     limits |-> [category_daily |-> Map1(C_Travel, 400)]],
    [allowed_categories |-> <<C_Food>>, unknown_category_mode |-> W_strict,
     banned_words |-> << <<>>, <<"o", "b">>, <<"B">> >>,
     date_range |-> [min |-> D_Jan11, max |-> D_Jan31],
     limits |-> [daily_total |-> 0]],
    [allowed_categories |-> <<C_Food>>, unknown_category_mode |-> W_ignore,
     date_range |-> [min |-> D_Feb01, max |-> D_Jan10],
     limits |-> [daily_total |-> 2400, monthly_total |-> 2400]],
    [allowed_categories |-> <<>>, unknown_category_mode |-> JsonZero,
     date_range |-> [min |-> D_Slashes, max |-> JsonDateNumber],
     limits |-> [monthly_total |-> 499, category_daily |-> <<>>]],
    [allowed_categories |-> <<C_Food, C_Travel>>, unknown_category_mode |-> NoneVal,
     banned_words |-> <<M_Acme>>,
     limits |-> [category_monthly |-> Map2(C_Food, 1699, C_Travel, 1700)]],
    [unknown_category_mode |-> JsonFive] }

\* The values of --top-n (any int; the default is 10).
TopNs == {-1, 0, 2, 10}

\* The columns of clean.csv.
CleanColumns == <<"date", "amount", "merchant", "category">>

VARIABLES
  pc,         \* the step of the run that was performed last
  rows,       \* read_csv's result
  ok_rows,    \* check_rows' first result
  errors,     \* check_rows' second result
  rules_doc,  \* the JSON document of the rules file (json.loads' result)
  rules,      \* load_rules' result
  ok_norm,    \* normalize_ok_rows' result
  norm_error, \* normalize_ok_rows raised ValueError
  applied,    \* apply_rules' results and the final values of its accumulators
  top_n,      \* make_summary's top_n
  summary,    \* make_summary's result
  clean_csv,  \* the text of clean.csv
  re_rows,    \* read_csv's result on clean.csv
  re_checked, \* check_rows' results on re_rows
  run,          \* the inputs of the current run of main or of the GUI script
  at,           \* where the current run stands
  todo,         \* the steps of main or _run_pipeline that are still to come
  done,         \* the steps the current run has performed, in order
  written,      \* the output artifacts the current run has written
  result,       \* the GUI script's local variable result
  run_error,    \* the GUI script's local variable run_error ("" for None)
  last_run,     \* st.session_state[LAST_RUN_KEY]
  cache_before, \* last_run as it was when the current run started
  raised,       \* a step of the current run has raised an exception
  run_no        \* the number of runs started so far

pipe_vars == <<pc, rows, ok_rows, errors, rules_doc, rules, ok_norm, norm_error, applied,
               top_n, summary, clean_csv, re_rows, re_checked>>

run_vars == <<run, at, todo, done, written, result, run_error, last_run, cache_before,
              raised, run_no>>

vars == <<pipe_vars, run_vars>>

clean_rows == applied.clean_rows
warnings == applied.warnings

PipeInit ==
  /\ pc = "start"
  /\ rows = <<>>
  /\ ok_rows = <<>>
  /\ errors = <<>>
  /\ rules_doc = <<>>
  /\ rules = load_rules(<<>>)
  /\ ok_norm = <<>>
  /\ norm_error = FALSE
  /\ applied = PassOneStart
  /\ top_n = 10
  /\ summary = <<>>
  /\ clean_csv = <<>>
  /\ re_rows = <<>>
  /\ re_checked = [ok |-> <<>>, errors |-> <<>>]

\* rows = read_csv(csv_path)
ReadCsv ==
  /\ pc = "start"
  /\ \E rs \in RowSeqs : rows' = rs
  /\ pc' = "read"
  /\ UNCHANGED <<ok_rows, errors, rules_doc, rules, ok_norm, norm_error, applied, top_n,
                 summary, clean_csv, re_rows, re_checked>>
  /\ UNCHANGED run_vars

\* ok_rows, errors = check_rows(rows)
CheckRows ==
  /\ pc = "read"
  /\ LET res == check_rows(rows)
     IN  ok_rows' = res.ok /\ errors' = res.errors
  /\ pc' = "checked"
  /\ UNCHANGED <<rows, rules_doc, rules, ok_norm, norm_error, applied, top_n, summary,
                 clean_csv, re_rows, re_checked>>
  /\ UNCHANGED run_vars

\* rules = load_rules(rules_path)
LoadRules ==
  /\ pc = "checked"
  /\ \E data \in RulesPool :
       /\ rules_doc' = data
       /\ IF LoadFails(data)
          THEN pc' = "load_failed" /\ UNCHANGED rules
          ELSE pc' = "loaded" /\ rules' = load_rules(data)
  /\ UNCHANGED <<rows, ok_rows, errors, ok_norm, norm_error, applied, top_n,
                 summary, clean_csv, re_rows, re_checked>>
  /\ UNCHANGED run_vars

\* ok_norm = normalize_ok_rows(ok_rows)
NormalizeOkRows ==
  /\ pc = "loaded"
  /\ IF NormalizeFails(ok_rows)
     THEN norm_error' = TRUE /\ pc' = "failed" /\ UNCHANGED ok_norm
     ELSE ok_norm' = normalize_ok_rows(ok_rows) /\ pc' = "normalized"
            /\ UNCHANGED norm_error
  /\ UNCHANGED <<rows, ok_rows, errors, rules_doc, rules, applied, top_n, summary,
                 clean_csv, re_rows, re_checked>>
  /\ UNCHANGED run_vars

\* clean_rows, warnings = apply_rules(ok_norm, rules)
ApplyRules ==
  /\ pc = "normalized"
  /\ applied' = apply_rules(ok_norm, rules)
  /\ ok_norm' = [k \in DOMAIN ok_norm |-> InputRecord(rules, ok_norm[k])]
  /\ pc' = "ruled"
  /\ UNCHANGED <<rows, ok_rows, errors, rules_doc, rules, norm_error, top_n,
                 summary, clean_csv, re_rows, re_checked>>
  /\ UNCHANGED run_vars

\* summary = make_summary(clean_rows, top_n=top_n)
\* (make_summary reads clean_rows only and the writes below do not read the
\* summary, so the two continue the run independently.)
MakeSummary ==
  /\ pc = "ruled"
  /\ \E n \in TopNs : top_n' = n /\ summary' = make_summary(clean_rows, n)
  /\ pc' = "summarized"
  /\ UNCHANGED <<rows, ok_rows, errors, rules_doc, rules, ok_norm, norm_error, applied,
                 clean_csv, re_rows, re_checked>>
  /\ UNCHANGED run_vars

\* write_csv(str(clean_csv), clean_rows, ["date", "amount", "merchant", "category"])
WriteCleanCsv ==
  /\ pc = "ruled"
  /\ clean_csv' = write_csv(clean_rows, CleanColumns)
  /\ pc' = "written"
  /\ UNCHANGED <<rows, ok_rows, errors, rules_doc, rules, ok_norm, norm_error, applied,
                 top_n, summary, re_rows, re_checked>>
  /\ UNCHANGED run_vars

\* A later run reads clean.csv: rows = read_csv(clean_csv)
ReadCleanCsv ==
  /\ pc = "written"
  /\ re_rows' = read_csv(clean_csv)
  /\ pc' = "reread"
  /\ UNCHANGED <<rows, ok_rows, errors, rules_doc, rules, ok_norm, norm_error, applied,
                 top_n, summary, clean_csv, re_checked>>
  /\ UNCHANGED run_vars

\* ... and ok_rows, errors = check_rows(rows) on them.
CheckCleanRows ==
  /\ pc = "reread"
  /\ re_checked' = check_rows(re_rows)
  /\ pc' = "rechecked"
  /\ UNCHANGED <<rows, ok_rows, errors, rules_doc, rules, ok_norm, norm_error, applied,
                 top_n, summary, clean_csv, re_rows>>
  /\ UNCHANGED run_vars

\* No run has been started and the session holds no last_run.
NoResult == [run |-> 0, source_bytes |-> "unset"]

NoRun ==
  [ui |-> "none", cmd |-> "none", rules_exists |-> TRUE, uploaded |-> FALSE,
   sample_exists |-> FALSE, do_excel |-> FALSE, do_html |-> FALSE, fails |-> "none"]

RunInit ==
  /\ run = NoRun
  /\ at = "idle"
  /\ todo = <<>>
  /\ done = <<>>
  /\ written = {}
  /\ result = NoResult
  /\ run_error = ""
  /\ last_run = NoResult
  /\ cache_before = NoResult
  /\ raised = FALSE
  /\ run_no = 0

Init == PipeInit /\ RunInit

Next ==
  \/ ReadCsv
  \/ CheckRows
  \/ LoadRules
  \/ NormalizeOkRows
  \/ ApplyRules
  \/ MakeSummary
  \/ WriteCleanCsv
  \/ ReadCleanCsv
  \/ CheckCleanRows

Spec == Init /\ [][Next]_vars
(***************************************************************************)
(* The runs of the command line tool (expense_tool.main) and of the GUI    *)
(* script (app.py), statement by statement: which steps a run performs,    *)
(* which artifacts it writes and what it leaves in the session. The data   *)
(* the steps compute is the subject of the specification above.            *)
(***************************************************************************)

\* The number of runs in a session.
MaxRuns == 2

\* The output artifacts; writing one is a step named after it.
Artifacts ==
  {"errors_csv", "warnings_csv", "clean_csv", "summary_csv", "report_xlsx", "report_html"}

\* The processing steps of the pipeline.
ProcessingSteps ==
  {"read_csv", "check_rows", "load_rules", "normalize_ok_rows", "apply_rules",
   "make_summary"}

\* The steps of main after the arguments are parsed.
MainSteps(cmd) ==
  <<"_ensure_dir", "read_csv", "check_rows", "load_rules", "normalize_ok_rows",
    "apply_rules">>
  \o (IF cmd = "check" THEN <<"errors_csv", "warnings_csv">>
      ELSE <<"make_summary", "errors_csv", "warnings_csv", "clean_csv", "summary_csv",
             "report_xlsx", "report_html">>)

\* The steps of _run_pipeline.
PipelineSteps(do_excel, do_html) ==
  <<"_ensure_dir", "read_csv", "check_rows", "load_rules", "normalize_ok_rows",
    "apply_rules", "make_summary", "errors_csv", "warnings_csv", "clean_csv",
    "summary_csv">>
  \o (IF do_excel THEN <<"report_xlsx">> ELSE <<>>)
  \o (IF do_html THEN <<"report_html">> ELSE <<>>)

\* The steps at which the environment may make a run fail (an unreadable
\* input, a full disk, a source that cannot be attached, a temporary
\* directory that cannot be removed); "none" is a run without such a failure.
FailPoints == {"none", "read_csv", "clean_csv", "report_xlsx", "attach", "cleanup"}

\* The step raises: load_rules when the rules file does not exist
\* (path.read_text), any step at which the environment fails.
StepRaises(step) ==
  \/ step = "load_rules" /\ ~run.rules_exists
  \/ run.fails = step

\* A run has ended.
Ended == at \in {"idle", "exited", "crashed", "rendered"}

\* What every run starts with.
StartRun(r, steps) ==
  /\ run' = r
  /\ todo' = steps
  /\ done' = <<>>
  /\ written' = {}
  /\ raised' = FALSE
  /\ run_no' = run_no + 1
  /\ cache_before' = last_run

\* main is called with check or report.
MainStart ==
  /\ Ended
  /\ run_no < MaxRuns
  /\ \E cmd \in {"check", "report"}, ex \in BOOLEAN, f \in FailPoints \ {"attach", "cleanup"} :
       StartRun([NoRun EXCEPT !.ui = "cli", !.cmd = cmd, !.rules_exists = ex, !.fails = f],
                MainSteps(cmd))
  /\ at' = "main"
  /\ UNCHANGED <<result, run_error, last_run>>
  /\ UNCHANGED pipe_vars

\* The next statement of main; an exception ends the process.
MainStep ==
  /\ at = "main"
  /\ todo # <<>>
  /\ IF StepRaises(Head(todo))
     THEN /\ at' = "crashed"
          /\ raised' = TRUE
          /\ UNCHANGED <<todo, done, written>>
     ELSE /\ done' = Append(done, Head(todo))
          /\ written' = written \cup ({Head(todo)} \cap Artifacts)
          /\ todo' = Tail(todo)
          /\ UNCHANGED <<at, raised>>
  /\ UNCHANGED <<run, result, run_error, last_run, cache_before, run_no>>
  /\ UNCHANGED pipe_vars

\* main returns its exit code.
MainReturn ==
  /\ at = "main"
  /\ todo = <<>>
  /\ at' = "exited"
  /\ UNCHANGED <<run, todo, done, written, result, run_error, last_run, cache_before,
                 raised, run_no>>
  /\ UNCHANGED pipe_vars

\* A button of the GUI is pressed: the script reruns from the top. The
\* rules file is looked for first, then the uploaded file or the sample file;
\* a missing one sets run_error and skips the pipeline.
ButtonPressed ==
  /\ Ended
  /\ run_no < MaxRuns
  /\ \E btn \in {"upload", "sample_bad", "sample_good"},
        ex \in BOOLEAN, src \in BOOLEAN, xl \in BOOLEAN, ht \in BOOLEAN,
        f \in FailPoints :
       LET r == [NoRun EXCEPT !.ui = "gui", !.cmd = btn, !.rules_exists = ex,
                              !.uploaded = (btn = "upload" /\ src),
                              !.sample_exists = (btn # "upload" /\ src),
                              !.do_excel = xl, !.do_html = ht, !.fails = f]
       IN  IF ~ex
              THEN /\ run_error' = "rules.json not found"
                   /\ at' = "after_try"
                   /\ StartRun(r, <<>>)
              ELSE IF btn = "upload" /\ ~src
              THEN /\ run_error' = "Please upload a CSV file before running."
                   /\ at' = "after_try"
                   /\ StartRun(r, <<>>)
              ELSE IF btn # "upload" /\ ~src
              THEN /\ run_error' = "Sample CSV not found"
                   /\ at' = "after_try"
                   /\ StartRun(r, <<>>)
              ELSE /\ run_error' = ""
                   /\ at' = "pipeline"
                   /\ StartRun(r, (IF btn = "upload" THEN <<"_save_upload">> ELSE <<>>)
                                  \o PipelineSteps(xl, ht))
  /\ result' = NoResult
  /\ UNCHANGED last_run
  /\ UNCHANGED pipe_vars

\* The next statement of _save_upload / _run_pipeline inside the try block;
\* an exception goes to the except clause.
PipelineStep ==
  /\ at = "pipeline"
  /\ todo # <<>>
  /\ IF StepRaises(Head(todo))
     THEN /\ at' = "except"
          /\ raised' = TRUE
          /\ UNCHANGED <<todo, done, written>>
     ELSE /\ done' = Append(done, Head(todo))
          /\ written' = written \cup ({Head(todo)} \cap Artifacts)
          /\ todo' = Tail(todo)
          /\ UNCHANGED <<at, raised>>
  /\ UNCHANGED <<run, result, run_error, last_run, cache_before, run_no>>
  /\ UNCHANGED pipe_vars

\* result = _run_pipeline(...): the pipeline returns its dict.
PipelineReturn ==
  /\ at = "pipeline"
  /\ todo = <<>>
  /\ result' = [run |-> run_no, source_bytes |-> "unset"]
  /\ at' = "attach"
  /\ UNCHANGED <<run, todo, done, written, run_error, last_run, cache_before, raised,
                 run_no>>
  /\ UNCHANGED pipe_vars

\* result["source_bytes"] = uploaded_csv.getvalue(), or
\* result["source_path"] = str(sample_csv_path.resolve()) and
\* result["source_bytes"] = _read_bytes(sample_csv_path): result is already
\* bound when one of these raises.
AttachSource ==
  /\ at = "attach"
  /\ IF StepRaises("attach")
     THEN /\ at' = "except"
          /\ raised' = TRUE
          /\ UNCHANGED <<result, done>>
     ELSE /\ result' = [result EXCEPT !.source_bytes = "bytes"]
          /\ done' = Append(done, "attach")
          /\ at' = IF run.cmd = "upload" THEN "cleanup" ELSE "after_try"
          /\ UNCHANGED raised
  /\ UNCHANGED <<run, todo, written, run_error, last_run, cache_before, run_no>>
  /\ UNCHANGED pipe_vars

\* The with block of the upload run ends: TemporaryDirectory.cleanup().
CleanupTmp ==
  /\ at = "cleanup"
  /\ IF StepRaises("cleanup")
     THEN at' = "except" /\ raised' = TRUE /\ UNCHANGED done
     ELSE at' = "after_try" /\ done' = Append(done, "cleanup") /\ UNCHANGED raised
  /\ UNCHANGED <<run, todo, written, result, run_error, last_run, cache_before, run_no>>
  /\ UNCHANGED pipe_vars

\* except Exception as exc: run_error = f"Run failed: {exc}"
ExceptClause ==
  /\ at = "except"
  /\ run_error' = "Run failed"
  /\ at' = "after_try"
  /\ UNCHANGED <<run, todo, done, written, result, last_run, cache_before, raised,
                 run_no>>
  /\ UNCHANGED pipe_vars

\* if result is not None: st.session_state[LAST_RUN_KEY] = result; then
\* st.error(run_error) if run_error, and the page is rendered from last_run.
StoreAndRender ==
  /\ at = "after_try"
  /\ last_run' = IF result # NoResult THEN result ELSE last_run
  /\ at' = "rendered"
  /\ UNCHANGED <<run, todo, done, written, result, run_error, cache_before, raised,
                 run_no>>
  /\ UNCHANGED pipe_vars

RunNext ==
  \/ MainStart
  \/ MainStep
  \/ MainReturn
  \/ ButtonPressed
  \/ PipelineStep
  \/ PipelineReturn
  \/ AttachSource
  \/ CleanupTmp
  \/ ExceptClause
  \/ StoreAndRender

RunSpec == Init /\ [][RunNext]_vars

(***************************************************************************)
(* Properties of check_rows and normalize_ok_rows.                         *)
(***************************************************************************)

\* check_rows has just returned (no later step changes rows, ok_rows, errors).
Checked == pc = "checked"

RowNumbers(recs) == {recs[i].row : i \in DOMAIN recs}

\* The row number check_rows gives the i-th input row.
RowNo(i) == StrInt(i + 1)

\* The error record of the i-th input row has the given reason.
HasReason(i, reason) ==
  \E k \in DOMAIN errors :
    /\ errors[k].row = RowNo(i)
    /\ \E n \in DOMAIN errors[k].reason : errors[k].reason[n] = reason

\* The trimmed text of a column of the i-th input row ("" when absent).
Trimmed(i, col) == strip(OrEmpty(get(rows[i], col)))

\* C1: every input row is in exactly one of ok and errors: the row numbers of
\* the two outputs are disjoint, together they are the row numbers of all
\* input rows, and len(ok) + len(errors) = len(rows).
C1_Partition ==
  Checked =>
    /\ Len(ok_rows) + Len(errors) = Len(rows)
    /\ Cardinality(RowNumbers(ok_rows)) = Len(ok_rows)
    /\ Cardinality(RowNumbers(errors)) = Len(errors)
    /\ RowNumbers(ok_rows) \cap RowNumbers(errors) = {}
    /\ RowNumbers(ok_rows) \cup RowNumbers(errors) = {RowNo(i) : i \in DOMAIN rows}

\* C1 witness: a three-row input with a row in each output, one of them a
\* duplicate.
C1_Witness ==
  /\ Checked
  /\ Len(rows) = 3
  /\ ok_rows # <<>>
  /\ \E i \in DOMAIN rows : HasReason(i, DuplicateReason)

\* The three key fields of the i-th input row are non-blank after trimming.
KeyComplete(i) ==
  Trimmed(i, "date") # <<>> /\ Trimmed(i, "amount") # <<>> /\ Trimmed(i, "merchant") # <<>>

SameKey(i, j) ==
  /\ Trimmed(i, "date") = Trimmed(j, "date")
  /\ Trimmed(i, "amount") = Trimmed(j, "amount")
  /\ lower(Trimmed(i, "merchant")) = lower(Trimmed(j, "merchant"))

\* C2: a row has the duplicate reason if and only if its three key fields are
\* non-blank and an earlier row with three non-blank key fields has the same
\* (date, amount, lower-cased merchant), whether or not that earlier row is
\* itself an error.
C2_DuplicateIff ==
  Checked =>
    \A i \in DOMAIN rows :
      HasReason(i, DuplicateReason) <=>
        /\ KeyComplete(i)
        /\ \E j \in 1..(i - 1) : KeyComplete(j) /\ SameKey(i, j)

\* C2 witness: the first carrier of a key is an error for another reason and
\* not a duplicate, and a later row with the key is flagged duplicate.
C2_Witness ==
  /\ Checked
  /\ \E i, j \in DOMAIN rows :
       /\ i < j
       /\ KeyComplete(i) /\ KeyComplete(j) /\ SameKey(i, j)
       /\ RowNo(i) \in RowNumbers(errors)
       /\ ~HasReason(i, DuplicateReason)
       /\ HasReason(j, DuplicateReason)

\* The text has the shape YYYY-MM-DD: digits everywhere but the two dashes.
IsoShape(s) ==
  /\ Len(s) = 10
  /\ s[5] = "-" /\ s[8] = "-"
  /\ \A i \in {1, 2, 3, 4, 6, 7, 9, 10} : s[i] \in Digits

\* C7: every ok record's date is written exactly as YYYY-MM-DD, and a row
\* whose trimmed date is non-blank and not of that shape is in errors with
\* the date-format reason.
C7_OkDatesIso ==
  Checked =>
    /\ \A k \in DOMAIN ok_rows : IsoShape(ok_rows[k].date)
    /\ \A i \in DOMAIN rows :
         (Trimmed(i, "date") # <<>> /\ ~IsoShape(Trimmed(i, "date")))
           => HasReason(i, DateFormatReason)

\* The integer a decimal literal denotes, digit by digit from the left.
RECURSIVE DecimalValue(_, _)
DecimalValue(t, acc) ==
  IF t = <<>> THEN acc
  ELSE IF Head(t) \in Digits THEN DecimalValue(Tail(t), acc * 10 + DigitVal(Head(t)))
  ELSE DecimalValue(Tail(t), acc)

SignedValue(t) == IF t[1] = "-" THEN -DecimalValue(t, 0) ELSE DecimalValue(t, 0)

\* An optional sign and then digits only.
PlainInteger(t) ==
  LET b == IF t # <<>> /\ t[1] \in {"+", "-"} THEN Tail(t) ELSE t
  IN  b # <<>> /\ \A i \in DOMAIN b : b[i] \in Digits \cup {"_"}

\* C8: normalize_ok_rows never fails on check_rows' ok list; it returns one
\* record per ok record, in order, with the integer value of the amount text
\* and the other fields unchanged; a row whose amount is not an integer is
\* not in ok.
C8_NormalizeNeverFails ==
  /\ ~norm_error
  /\ pc # "failed"
  /\ Checked =>
       \A i \in DOMAIN rows :
         (Trimmed(i, "amount") # <<>> /\ ~PlainInteger(Trimmed(i, "amount")))
           => RowNo(i) \notin RowNumbers(ok_rows)
  /\ pc = "normalized" =>
       /\ Len(ok_norm) = Len(ok_rows)
       /\ \A k \in DOMAIN ok_rows :
            /\ ok_norm[k].amount = SignedValue(ok_rows[k].amount)
            /\ ok_norm[k].row = ok_rows[k].row
            /\ ok_norm[k].date = ok_rows[k].date
            /\ ok_norm[k].merchant = ok_rows[k].merchant
            /\ ok_norm[k].category = ok_rows[k].category

\* C8 witness: the normalizer has run on an ok list with a negative amount
\* and one with a leading zero, while a decimal amount was kept out.
C8_Witness ==
  /\ pc = "normalized"
  /\ \E k \in DOMAIN ok_norm : ok_norm[k].amount < 0
  /\ \E k \in DOMAIN ok_rows : ok_rows[k].amount = A_01200
  /\ \E i \in DOMAIN rows : Trimmed(i, "amount") = A_Decimal

(***************************************************************************)
(* Properties of the clean.csv round trip.                                 *)
(***************************************************************************)

\* C3: the clean records written with write_csv (date, amount, merchant,
\* category), read back and run through check_rows again give an empty errors
\* list, for every input and every rule configuration.
C3_RoundTripNoErrors == pc = "rechecked" => re_checked.errors = <<>>

(***************************************************************************)
(* Properties of apply_rules.                                              *)
(***************************************************************************)

\* apply_rules has just returned (no later step changes its result).
Ruled == pc = "ruled"

\* The sum of the amounts of the clean records at the positions in S.
RECURSIVE SumAt(_)
SumAt(S) ==
  IF S = {} THEN 0
  ELSE LET k == CHOOSE k \in S : TRUE IN clean_rows[k].amount + SumAt(S \ {k})

DaySum(d) == SumAt({k \in DOMAIN clean_rows : clean_rows[k].date = d})
MonthSum(m) == SumAt({k \in DOMAIN clean_rows : Prefix(clean_rows[k].date, 7) = m})
DayCatSum(d, c) ==
  SumAt({k \in DOMAIN clean_rows : clean_rows[k].date = d /\ clean_rows[k].category = c})
MonthCatSum(m, c) ==
  SumAt({k \in DOMAIN clean_rows :
           Prefix(clean_rows[k].date, 7) = m /\ clean_rows[k].category = c})

CleanDates == {clean_rows[k].date : k \in DOMAIN clean_rows}
CleanMonths == {Prefix(clean_rows[k].date, 7) : k \in DOMAIN clean_rows}
CleanCategories == {clean_rows[k].category : k \in DOMAIN clean_rows}

\* The positions of the warnings of a kind.
OfKind(kind) == {i \in DOMAIN warnings : warnings[i].kind = kind}

AllowedSet == IF rules.allowed_categories = NoneList THEN {}
              ELSE {rules.allowed_categories[i] : i \in DOMAIN rules.allowed_categories}

\* The k-th normalized row is an unknown-category row under fallback mode.
FallbackCase(k) ==
  /\ AllowedSet # {}
  /\ rules.unknown_category_mode = W_fallback
  /\ ok_norm[k].category \notin AllowedSet

\* What C4 says of the k-th row whatever the fallback category is: one
\* category_unknown warning with the original category, the fallback category
\* in the clean record, the amount accumulated under the fallback category.
FallbackEffects(k) ==
  LET r == ok_norm[k]
      fb == FallbackOf(rules)
      month == Prefix(r.date, 7)
      mine == {i \in OfKind("category_unknown") : warnings[i].row = r.row}
  IN  /\ Cardinality(mine) = 1
      /\ \A i \in mine : warnings[i].category = r.category
      /\ clean_rows[k].category = fb
      /\ <<r.date, fb>> \in DOMAIN applied.by_day_cat
      /\ applied.by_day_cat[<<r.date, fb>>] = DayCatSum(r.date, fb)
      /\ <<month, fb>> \in DOMAIN applied.by_month_cat
      /\ applied.by_month_cat[<<month, fb>>] = MonthCatSum(month, fb)

\* Nothing is accumulated, and no per-category limit warning is given, under
\* the original category of the k-th row.
NothingUnderOriginal(k) ==
  LET r == ok_norm[k]
  IN  /\ <<r.date, r.category>> \notin DOMAIN applied.by_day_cat
      /\ <<Prefix(r.date, 7), r.category>> \notin DOMAIN applied.by_month_cat
      /\ \A i \in OfKind("limit_category_daily") \cup OfKind("limit_category_monthly") :
           warnings[i].category # r.category

\* C4 as stated: in fallback mode an unknown-category row gets one
\* category_unknown warning with its original category, its clean record has
\* the fallback category, and its amount is accumulated under the fallback
\* category and never under the original category.
C4_FallbackNeverOriginal ==
  Ruled => \A k \in DOMAIN ok_norm :
             FallbackCase(k) => FallbackEffects(k) /\ NothingUnderOriginal(k)

\* C4 amended: as stated, except that the amount is kept from the original
\* category only when the fallback category is another category than the
\* row's own.
C4_FallbackAccumulation ==
  Ruled => \A k \in DOMAIN ok_norm :
             FallbackCase(k) =>
               /\ FallbackEffects(k)
               /\ ok_norm[k].category # FallbackOf(rules) => NothingUnderOriginal(k)

\* C4 witness: an unknown-category row was rewritten to another category and
\* a per-category daily limit warning was given under that fallback category.
C4_Witness ==
  /\ Ruled
  /\ \E k \in DOMAIN ok_norm :
       /\ FallbackCase(k)
       /\ ok_norm[k].category # FallbackOf(rules)
       /\ \E i \in OfKind("limit_category_daily") :
            /\ warnings[i].category = FallbackOf(rules)
            /\ warnings[i].date = ok_norm[k].date

\* C5: with daily_total (monthly_total) configured there is exactly one
\* limit_daily_total (limit_monthly_total) warning for each date (month) whose
\* clean amounts sum to more than the limit, none for any other date (month)
\* and none when the limit is not configured; the warning's amount is the sum
\* as decimal text and its row and merchant are empty.
C5_TotalLimits ==
  Ruled =>
    /\ \A d \in CleanDates :
         Cardinality({i \in OfKind("limit_daily_total") : warnings[i].date = d})
           = IF "daily_total" \in DOMAIN rules.limits /\ DaySum(d) > rules.limits.daily_total
             THEN 1 ELSE 0
    /\ \A i \in OfKind("limit_daily_total") :
         /\ warnings[i].date \in CleanDates
         /\ warnings[i].amount = StrInt(DaySum(warnings[i].date))
         /\ warnings[i].row = <<>> /\ warnings[i].merchant = <<>>
    /\ \A m \in CleanMonths :
         Cardinality({i \in OfKind("limit_monthly_total") : warnings[i].month = m})
           = IF "monthly_total" \in DOMAIN rules.limits
                  /\ MonthSum(m) > rules.limits.monthly_total
             THEN 1 ELSE 0
    /\ \A i \in OfKind("limit_monthly_total") :
         /\ warnings[i].month \in CleanMonths
         /\ warnings[i].amount = StrInt(MonthSum(warnings[i].month))
         /\ warnings[i].row = <<>> /\ warnings[i].merchant = <<>>

\* C5 witness: a monthly total that only two rows together push over the
\* limit is warned about, and a daily total equal to its limit is not.
C5_Witness ==
  /\ Ruled
  /\ \/ /\ "monthly_total" \in DOMAIN rules.limits
        /\ \E i \in OfKind("limit_monthly_total") :
             \A k \in DOMAIN clean_rows : clean_rows[k].amount <= rules.limits.monthly_total
     \/ /\ "daily_total" \in DOMAIN rules.limits
        /\ \E d \in CleanDates : DaySum(d) = rules.limits.daily_total

\* The threshold map of a per-category limit ({} when it is not configured).
CategoryMap(name) == IF name \in DOMAIN rules.limits THEN rules.limits[name] ELSE <<>>

\* C6: a limit_category_daily (limit_category_monthly) warning is given for a
\* (date, category) ((month, category)) pair if and only if the category has
\* a threshold in the configured map and the pair's total is strictly above
\* it; a category absent from the map gets no such warning.
C6_CategoryLimits ==
  Ruled =>
    /\ \A d \in CleanDates, c \in CleanCategories :
         Cardinality({i \in OfKind("limit_category_daily") :
                        warnings[i].date = d /\ warnings[i].category = c})
           = IF /\ c \in DOMAIN CategoryMap("category_daily")
                /\ \E k \in DOMAIN clean_rows :
                     clean_rows[k].date = d /\ clean_rows[k].category = c
                /\ DayCatSum(d, c) > CategoryMap("category_daily")[c]
             THEN 1 ELSE 0
    /\ \A i \in OfKind("limit_category_daily") :
         /\ warnings[i].date \in CleanDates /\ warnings[i].category \in CleanCategories
         /\ warnings[i].amount = StrInt(DayCatSum(warnings[i].date, warnings[i].category))
    /\ \A m \in CleanMonths, c \in CleanCategories :
         Cardinality({i \in OfKind("limit_category_monthly") :
                        warnings[i].month = m /\ warnings[i].category = c})
           = IF /\ c \in DOMAIN CategoryMap("category_monthly")
                /\ \E k \in DOMAIN clean_rows :
                     Prefix(clean_rows[k].date, 7) = m /\ clean_rows[k].category = c
                /\ MonthCatSum(m, c) > CategoryMap("category_monthly")[c]
             THEN 1 ELSE 0
    /\ \A i \in OfKind("limit_category_monthly") :
         /\ warnings[i].month \in CleanMonths /\ warnings[i].category \in CleanCategories
         /\ warnings[i].amount = StrInt(MonthCatSum(warnings[i].month, warnings[i].category))

\* C6 witness: one category is warned about while another category, absent
\* from the map, has a larger total on the same day and is not.
C6_Witness ==
  /\ Ruled
  /\ \E i \in OfKind("limit_category_daily") :
       \E c \in CleanCategories :
         /\ c \notin DOMAIN CategoryMap("category_daily")
         /\ DayCatSum(warnings[i].date, c)
              >= DayCatSum(warnings[i].date, warnings[i].category)

(***************************************************************************)
(* make_summary: the shape of the summary (C9) and the merchant table     *)
(* (C10).                                                                  *)
(***************************************************************************)

Summarized == pc = "summarized"

TableTypes == <<"month_total", "category_total", "merchant_top", "weekday_total", "stats">>

TypeIndex(type) == CHOOSE i \in DOMAIN TableTypes : TableTypes[i] = type

\* The positions of the summary entries of a table, and the first of them.
TableAt(type) == {i \in DOMAIN summary : summary[i].type = type}

FirstAt(type) == CHOOSE i \in TableAt(type) : \A j \in TableAt(type) : i <= j

\* The tables come in the fixed order, each one present and contiguous.
FixedOrder ==
  /\ \A i \in DOMAIN summary : summary[i].type \in {TableTypes[k] : k \in DOMAIN TableTypes}
  /\ \A k \in DOMAIN TableTypes : TableAt(TableTypes[k]) # {}
  /\ \A i, j \in DOMAIN summary :
       i < j => TypeIndex(summary[i].type) <= TypeIndex(summary[j].type)

\* A row that holds column names rather than data: every data row's value is
\* the decimal text of a number.
HoldsColumnNames(e) == ~IsIntLiteral(e.value)

\* The key of the header of each of the four tables that have one.
HeaderKey(type) ==
  IF type = "month_total" THEN T_month
  ELSE IF type = "category_total" THEN T_category
  ELSE IF type = "merchant_top" THEN T_top_ \o StrInt(top_n)
  ELSE T_weekday

\* C9 as stated: five tables in the fixed order, contiguous, each of the
\* five beginning with a header row that holds column names rather than
\* data, for every clean-record input (the stats table has no such row).
C9_FiveHeaders ==
  Summarized =>
    /\ FixedOrder
    /\ \A k \in DOMAIN TableTypes : HoldsColumnNames(summary[FirstAt(TableTypes[k])])

\* C9 amended: five tables in the fixed order, contiguous, for every
\* clean-record input including the empty one; month_total, category_total,
\* merchant_top and weekday_total begin with a header row of column names,
\* and stats has no header: it begins with the count row, whose value is the
\* number of clean records.
C9_TablesAndHeaders ==
  Summarized =>
    /\ FixedOrder
    /\ \A k \in 1..4 :
         /\ summary[FirstAt(TableTypes[k])]
              = Entry(TableTypes[k], HeaderKey(TableTypes[k]), T_total_amount)
         /\ HoldsColumnNames(summary[FirstAt(TableTypes[k])])
         /\ \A i \in TableAt(TableTypes[k]) \ {FirstAt(TableTypes[k])} :
              ~HoldsColumnNames(summary[i])
    /\ summary[FirstAt("stats")] = Entry("stats", T_count, StrInt(Len(clean_rows)))
    /\ \A i \in TableAt("stats") : ~HoldsColumnNames(summary[i])

\* C9 witness: the summary of the empty clean list, four header rows and the
\* count row.
C9_Witness ==
  /\ Summarized
  /\ clean_rows = <<>>
  /\ Len(summary) = 5

\* The merchants of the clean records, a merchant's total and the position of
\* its first record.
CleanMerchants == {clean_rows[k].merchant : k \in DOMAIN clean_rows}

MerchantSum(m) == SumAt({k \in DOMAIN clean_rows : clean_rows[k].merchant = m})

FirstRecord(m) ==
  CHOOSE k \in DOMAIN clean_rows :
    /\ clean_rows[k].merchant = m
    /\ \A j \in DOMAIN clean_rows : clean_rows[j].merchant = m => k <= j

\* m1 comes before m2 in the merchant table: the larger total first, equal
\* totals in the order of first occurrence.
RanksBefore(m1, m2) ==
  \/ MerchantSum(m1) > MerchantSum(m2)
  \/ MerchantSum(m1) = MerchantSum(m2) /\ FirstRecord(m1) < FirstRecord(m2)

\* The data rows of the merchant table (the rows after its header).
MerchantRows ==
  LET n == Cardinality(TableAt("merchant_top"))
  IN  [i \in 1..(n - 1) |-> summary[FirstAt("merchant_top") + i]]

\* C10 as stated: for every integer top_n the merchant data rows follow the
\* header top_<top_n>, are the merchants by descending total (ties by first
\* occurrence) cut to the first top_n, number
\* min(max(top_n, 0), number of distinct merchants), and each value is the
\* sum of the merchant's amounts.
C10_MerchantTop ==
  Summarized =>
    /\ summary[FirstAt("merchant_top")].key = T_top_ \o StrInt(top_n)
    /\ Len(MerchantRows)
         = LET want == IF top_n > 0 THEN top_n ELSE 0
               have == Cardinality(CleanMerchants)
           IN  IF want < have THEN want ELSE have
    /\ \A i \in DOMAIN MerchantRows :
         /\ MerchantRows[i].key \in CleanMerchants
         /\ MerchantRows[i].value = StrInt(MerchantSum(MerchantRows[i].key))
         /\ \A j \in DOMAIN MerchantRows :
              i < j => RanksBefore(MerchantRows[i].key, MerchantRows[j].key)
         /\ \A m \in CleanMerchants \ {MerchantRows[j].key : j \in DOMAIN MerchantRows} :
              RanksBefore(MerchantRows[i].key, m)

(***************************************************************************)
(* make_summary: the month and category tables (C11) and the statistics    *)
(* (C12).                                                                  *)
(***************************************************************************)

\* The data rows of a table that has a header (the rows after it).
TableData(type) ==
  LET n == Cardinality(TableAt(type))
  IN  [i \in 1..(n - 1) |-> summary[FirstAt(type) + i]]

CategorySum(c) == SumAt({k \in DOMAIN clean_rows : clean_rows[k].category = c})

\* The sum of the values of a sequence of summary entries.
RECURSIVE ValueSum(_)
ValueSum(es) == IF es = <<>> THEN 0 ELSE SignedValue(Head(es).value) + ValueSum(Tail(es))

\* The keys of the entries are exactly the set S, each once, ascending.
KeysAscending(es, S) ==
  /\ Len(es) = Cardinality(S)
  /\ {es[i].key : i \in DOMAIN es} = S
  /\ \A i, j \in DOMAIN es : i < j => TextLess(es[i].key, es[j].key)

\* C11: the month_total data rows list each distinct month (first 7
\* characters of the date) once, in ascending lexical order, with the sum of
\* the month's clean amounts; the category_total data rows do the same for
\* the clean categories; both tables add up to the sum of all clean amounts.
C11_MonthAndCategoryTotals ==
  Summarized =>
    /\ KeysAscending(TableData("month_total"), CleanMonths)
    /\ \A i \in DOMAIN TableData("month_total") :
         TableData("month_total")[i].value = StrInt(MonthSum(TableData("month_total")[i].key))
    /\ KeysAscending(TableData("category_total"), CleanCategories)
    /\ \A i \in DOMAIN TableData("category_total") :
         TableData("category_total")[i].value
           = StrInt(CategorySum(TableData("category_total")[i].key))
    /\ ValueSum(TableData("month_total")) = SumAt(DOMAIN clean_rows)
    /\ ValueSum(TableData("category_total")) = SumAt(DOMAIN clean_rows)

\* C11 witness: a summary over two months and two categories, one month
\* holding more than one record.
C11_Witness ==
  /\ Summarized
  /\ Cardinality(CleanMonths) >= 2
  /\ Cardinality(CleanCategories) >= 2
  /\ Len(clean_rows) > Cardinality(CleanMonths)

\* The amounts of the clean records and the positions of the stats entries
\* with a given key.
CleanAmounts == {clean_rows[k].amount : k \in DOMAIN clean_rows}

StatAt(key) == {i \in TableAt("stats") : summary[i].key = key}

\* The value of the one stats entry with the key.
StatValue(key) == SignedValue(summary[CHOOSE i \in StatAt(key) : TRUE].value)

\* q is x / n truncated towards zero (n > 0).
Truncates(q, x, n) ==
  IF x >= 0 THEN q * n <= x /\ x < (q + 1) * n
  ELSE q * n >= x /\ x > (q - 1) * n

\* The number of clean records whose amount is below (above) v.
Below(v) == Cardinality({k \in DOMAIN clean_rows : clean_rows[k].amount < v})

Above(v) == Cardinality({k \in DOMAIN clean_rows : clean_rows[k].amount > v})

\* v is the h-th smallest amount of the n clean amounts.
IsRanked(v, h) ==
  /\ v \in CleanAmounts
  /\ Below(v) <= h - 1
  /\ Above(v) <= Len(clean_rows) - h

\* m is the median of the clean amounts truncated towards zero: the middle
\* amount of an odd count, the mean of the two middle amounts of an even one.
IsMedian(m) ==
  LET n == Len(clean_rows)
  IN  IF n % 2 = 1 THEN IsRanked(m, (n + 1) \div 2)
      ELSE \E lo, hi \in CleanAmounts :
             /\ IsRanked(lo, n \div 2)
             /\ IsRanked(hi, n \div 2 + 1)
             /\ Truncates(m, lo + hi, 2)

\* C12: the stats entry count is always emitted and is the number of clean
\* records (0 for empty input); average, median, min and max are emitted if
\* and only if there is a clean record; average is the mean truncated to an
\* integer, median the median truncated to an integer, min and max the
\* smallest and largest amount, negative amounts included.
C12_Stats ==
  Summarized =>
    /\ Cardinality(StatAt(T_count)) = 1
    /\ StatValue(T_count) = Len(clean_rows)
    /\ summary[CHOOSE i \in StatAt(T_count) : TRUE].value = StrInt(Len(clean_rows))
    /\ \A key \in {T_average, T_median, T_min, T_max} :
         Cardinality(StatAt(key)) = IF clean_rows # <<>> THEN 1 ELSE 0
    /\ \A i \in TableAt("stats") :
         summary[i].key \in {T_count, T_average, T_median, T_min, T_max}
    /\ clean_rows # <<>> =>
         /\ Truncates(StatValue(T_average), SumAt(DOMAIN clean_rows), Len(clean_rows))
         /\ IsMedian(StatValue(T_median))
         /\ StatValue(T_min) \in CleanAmounts
         /\ \A a \in CleanAmounts : StatValue(T_min) <= a
         /\ StatValue(T_max) \in CleanAmounts
         /\ \A a \in CleanAmounts : a <= StatValue(T_max)
         /\ \A key \in {T_average, T_median, T_min, T_max} :
              summary[CHOOSE i \in StatAt(key) : TRUE].value = StrInt(StatValue(key))

\* C12 witness: an even number of clean records whose two middle amounts
\* have a negative odd sum, so that the mean and the median are truncated
\* towards zero.
C12_Witness ==
  /\ Summarized
  /\ Len(clean_rows) = 2
  /\ SumAt(DOMAIN clean_rows) < 0
  /\ SumAt(DOMAIN clean_rows) % 2 = 1
  /\ StatValue(T_median) = 0

(***************************************************************************)
(* The default fallback category (C13).                                    *)
(***************************************************************************)

\* The k-th normalized row is an unknown-category row under fallback mode
\* and the configuration has no fallback_category.
DefaultFallbackCase(k) == FallbackCase(k) /\ rules.fallback_category = NoneVal

\* The clean record of the k-th row carries the category fb and the row's
\* amount is accumulated under fb.
CarriedUnder(k, fb) ==
  LET r == ok_norm[k]
      month == Prefix(r.date, 7)
  IN  /\ clean_rows[k].category = fb
      /\ <<r.date, fb>> \in DOMAIN applied.by_day_cat
      /\ applied.by_day_cat[<<r.date, fb>>] = DayCatSum(r.date, fb)
      /\ <<month, fb>> \in DOMAIN applied.by_month_cat
      /\ applied.by_month_cat[<<month, fb>>] = MonthCatSum(month, fb)

\* C13 as stated: without a configured fallback_category the fallback
\* category is "Other".
C13_DefaultIsOther ==
  Ruled => \A k \in DOMAIN ok_norm :
             DefaultFallbackCase(k) => CarriedUnder(k, <<"O", "t", "h", "e", "r">>)

\* C13 amended: without a configured fallback_category the fallback category
\* is the text of rules.py line 123 (the Japanese word for "other", written
\* here in Latin letters as "sonota"), not the English text "Other": the
\* clean record carries it and the amount is accumulated under it.
C13_DefaultFallback ==
  Ruled => \A k \in DOMAIN ok_norm :
             DefaultFallbackCase(k) =>
               /\ CarriedUnder(k, <<"s", "o", "n", "o", "t", "a">>)
               /\ clean_rows[k].category # <<"O", "t", "h", "e", "r">>

\* C13 witness: an unknown-category row was rewritten under fallback mode
\* with no fallback_category configured.
C13_Witness ==
  /\ Ruled
  /\ \E k \in DOMAIN ok_norm :
       /\ DefaultFallbackCase(k)
       /\ clean_rows[k].category # ok_norm[k].category

(***************************************************************************)
(* Malformed configuration values (C14).                                   *)
(***************************************************************************)

\* What the rules document configures for the mode and the date bounds.
ConfiguredMode == get(rules_doc, "unknown_category_mode")

ConfiguredBound(side) == get(GetDict(rules_doc, "date_range"), side)

\* The value is a valid date written as YYYY-MM-DD.
ValidIsoDate(v) == IsStr(v) /\ IsoShape(v) /\ parse_date(v)

\* The date_range warnings given for the min (max) bound.
BoundWarnings(side) ==
  {i \in OfKind("date_range") :
     warnings[i].message[1] = "date out of range (" \o side \o "="}

\* C14 as stated: no value of unknown_category_mode, date_range.min or
\* date_range.max makes load_rules or apply_rules fail; the effective mode is
\* the configured value when that is one of warn, ignore, fallback and warn
\* for every other or absent value; a date bound that is not a valid
\* YYYY-MM-DD date gives no date_range warning.
C14_ConfigNeverFails ==
  /\ pc # "load_failed"
  /\ pc = "loaded" =>
       rules.unknown_category_mode
         = IF ConfiguredMode \in {W_warn, W_ignore, W_fallback}
           THEN ConfiguredMode ELSE W_warn
  /\ Ruled =>
       \A side \in {"min", "max"} :
         ~ValidIsoDate(ConfiguredBound(side)) => BoundWarnings(side) = {}

(***************************************************************************)
(* Runs without a rules file (C15) and the session cache (C16).            *)
(***************************************************************************)

\* The steps the current run has performed, as a set.
DoneSteps == {done[i] : i \in DOMAIN done}

\* The current run has reported a failure: the process died of an exception
\* or the GUI shows run_error.
FailureReported == at = "crashed" \/ (at = "rendered" /\ run_error # "")

\* C15 as stated: when the rules file does not exist, a run of the command
\* line tool (check, report) or of the GUI fails before any processing step
\* (reading the input, structural validation) is performed and without any
\* output artifact being written.
C15_MissingRulesFailsFirst ==
  (run.ui # "none" /\ ~run.rules_exists) =>
    /\ DoneSteps \cap ProcessingSteps = {}
    /\ written = {}
    /\ at \in {"exited", "crashed", "rendered"} => FailureReported

\* The GUI run that has just been rendered went through its whole try block
\* without an exception and without being rejected by a precondition.
CompletedRun == ~raised /\ run_error = ""

\* C16 as stated: across any sequence of GUI runs the session cache is
\* replaced only by the result of a run whose whole pipeline, file writes and
\* the attachment of the source bytes included, completed without error; a
\* run that fails at any step or is rejected by a precondition leaves the
\* cache as it was and reports an error.
C16_CacheOnlyOnSuccess ==
  (run.ui = "gui" /\ at = "rendered") =>
    /\ last_run # cache_before => CompletedRun /\ last_run.run = run_no
    /\ ~CompletedRun => last_run = cache_before /\ run_error # ""
    /\ CompletedRun => last_run = result /\ last_run.source_bytes = "bytes"

(***************************************************************************)
(* Further properties of check_rows.                                       *)
(***************************************************************************)

\* The (date, amount text, lower-cased merchant) of the k-th ok record.
OkTriple(k) == <<ok_rows[k].date, ok_rows[k].amount, lower(ok_rows[k].merchant)>>

\* C17: the triple (date, amount text, lower-cased merchant) is unique across
\* all records of the ok output of check_rows, for every input row sequence.
C17_OkTriplesUnique ==
  Checked => \A k, l \in DOMAIN ok_rows : k # l => OkTriple(k) # OkTriple(l)

\* C17 witness: two ok records, and a row left out of ok whose merchant
\* differs only in case from that of an earlier ok row with the same date and
\* amount text.
C17_Witness ==
  /\ Checked
  /\ Len(ok_rows) >= 2
  /\ \E i, j \in DOMAIN rows :
       /\ i < j
       /\ RowNo(i) \in RowNumbers(ok_rows)
       /\ RowNo(j) \in RowNumbers(errors)
       /\ SameKey(i, j)
       /\ Trimmed(i, "merchant") # Trimmed(j, "merchant")

\* The reason the required-column rule gives for a column of the i-th input
\* row, if it is violated.
ColumnViolation(i, col) ==
  IF col \notin DOMAIN rows[i] THEN <<MissingReason(col)>>
  ELSE IF Trimmed(i, col) = <<>> THEN <<BlankReason(col)>>
  ELSE <<>>

\* The descriptions of the rules the i-th input row violates, in the order
\* date, amount, merchant, category, date format, amount format, duplicate.
ViolatedRules(i) ==
  ColumnViolation(i, "date") \o ColumnViolation(i, "amount")
    \o ColumnViolation(i, "merchant") \o ColumnViolation(i, "category")
    \o (IF Trimmed(i, "date") # <<>> /\ ~parse_date(Trimmed(i, "date"))
        THEN <<DateFormatReason>> ELSE <<>>)
    \o (IF Trimmed(i, "amount") # <<>> /\ ~parse_amount(Trimmed(i, "amount"))
        THEN <<AmountFormatReason>> ELSE <<>>)
    \o (IF KeyComplete(i) /\ \E j \in 1..(i - 1) : KeyComplete(j) /\ SameKey(i, j)
        THEN <<DuplicateReason>> ELSE <<>>)

\* text is the reasons with ' / ' between each two of them.
IsJoinOf(text, reasons) ==
  /\ reasons # <<>>
  /\ Len(text) = 2 * Len(reasons) - 1
  /\ \A n \in DOMAIN text :
       text[n] = IF n % 2 = 1 THEN reasons[(n + 1) \div 2] ELSE " / "

\* C18: a row is an error if and only if it violates at least one rule, and
\* its reason is the ' / '-join of the violated rules' descriptions in the
\* order: missing or blank date, amount, merchant, category; date format;
\* amount format; duplicate.  A blank or missing date or amount gives only
\* its blank/missing reason, never also a format reason.
C18_ReasonsInOrder ==
  Checked =>
    \A i \in DOMAIN rows :
      /\ RowNo(i) \in RowNumbers(errors) <=> ViolatedRules(i) # <<>>
      /\ RowNo(i) \in RowNumbers(ok_rows) <=> ViolatedRules(i) = <<>>
      /\ \A k \in DOMAIN errors :
           errors[k].row = RowNo(i) => IsJoinOf(errors[k].reason, ViolatedRules(i))
      /\ Trimmed(i, "date") = <<>> =>
           /\ ~HasReason(i, DateFormatReason)
           /\ HasReason(i, MissingReason("date")) \/ HasReason(i, BlankReason("date"))
      /\ Trimmed(i, "amount") = <<>> =>
           /\ ~HasReason(i, AmountFormatReason)
           /\ HasReason(i, MissingReason("amount")) \/ HasReason(i, BlankReason("amount"))

\* C18 witness: one row with the date-format, the amount-format and the
\* duplicate reason together, and one row with a blank date, a blank amount
\* and a missing column.
C18_Witness ==
  /\ Checked
  /\ \E i \in DOMAIN rows :
       /\ HasReason(i, DateFormatReason)
       /\ HasReason(i, AmountFormatReason)
       /\ HasReason(i, DuplicateReason)
  /\ \E i \in DOMAIN rows :
       /\ HasReason(i, BlankReason("date"))
       /\ HasReason(i, BlankReason("amount"))
       /\ HasReason(i, MissingReason("category"))

\* The record check_rows made of the i-th input row carries the row number n.
NumberedAs(i, n) ==
  \/ \E k \in DOMAIN ok_rows :
       /\ ok_rows[k].row = n
       /\ \A col \in {"date", "amount", "merchant", "category"} :
            ok_rows[k][col] = Trimmed(i, col)
       /\ ViolatedRules(i) = <<>>
  \/ \E k \in DOMAIN errors :
       /\ errors[k].row = n
       /\ \A col \in {"date", "amount", "merchant", "category"} :
            errors[k][col] = getd(rows[i], col)
       /\ ViolatedRules(i) # <<>>

\* The row numbers of the records are strictly increasing.
Increasing(recs) ==
  \A k, l \in DOMAIN recs : k < l => Num(recs[k].row) < Num(recs[l].row)

\* C19: the i-th input row (i from 1) is numbered i + 1, so the first data row
\* is row 2, and the row numbers are strictly increasing in ok and strictly
\* increasing in errors.
C19_RowNumbering ==
  Checked =>
    /\ \A i \in DOMAIN rows : NumberedAs(i, StrNat(i + 1))
    /\ rows # <<>> => NumberedAs(1, <<"2">>)
    /\ \A k \in DOMAIN ok_rows : AllDigits(ok_rows[k].row)
    /\ \A k \in DOMAIN errors : AllDigits(errors[k].row)
    /\ Increasing(ok_rows)
    /\ Increasing(errors)

\* C19 witness: errors holds the first and the last of three rows and ok the
\* one between them.
C19_Witness ==
  /\ Checked
  /\ Len(rows) = 3
  /\ RowNumbers(errors) = {<<"2">>, <<"4">>}
  /\ RowNumbers(ok_rows) = {<<"3">>}

(***************************************************************************)
(* The category check of apply_rules.                                      *)
(***************************************************************************)

\* The category_unknown warnings of the k-th normalized row.
UnknownWarningsOf(k) ==
  {i \in OfKind("category_unknown") : warnings[i].row = ok_norm[k].row}

\* The category of the k-th normalized row is outside a non-empty
\* allowed_categories.
NotAllowed(k) == AllowedSet # {} /\ ok_norm[k].category \notin AllowedSet

\* C20: a row gets a category_unknown warning if and only if
\* allowed_categories is non-empty, the row's category is not in it and the
\* mode is warn or fallback, and then it gets exactly one; with an empty or
\* absent allowed_categories no row gets one; the clean record's category
\* differs from the input category only in fallback mode for a not-allowed
\* category, and is unchanged under warn and ignore.
C20_CategoryUnknown ==
  Ruled =>
    /\ \A k \in DOMAIN ok_norm :
         /\ Cardinality(UnknownWarningsOf(k)) =
              IF NotAllowed(k) /\ rules.unknown_category_mode \in {W_warn, W_fallback}
              THEN 1 ELSE 0
         /\ clean_rows[k].category # ok_norm[k].category =>
              NotAllowed(k) /\ rules.unknown_category_mode = W_fallback
         /\ rules.unknown_category_mode \in {W_warn, W_ignore} =>
              clean_rows[k].category = ok_norm[k].category
    /\ \A i \in OfKind("category_unknown") :
         \E k \in DOMAIN ok_norm : i \in UnknownWarningsOf(k)
    /\ AllowedSet = {} => OfKind("category_unknown") = {}

\* C20 witness: under warn mode one row with a not-allowed category has its
\* warning and keeps its category, and another row has an allowed category.
C20_Witness ==
  /\ Ruled
  /\ rules.unknown_category_mode = W_warn
  /\ \E k, l \in DOMAIN ok_norm :
       /\ NotAllowed(k)
       /\ Cardinality(UnknownWarningsOf(k)) = 1
       /\ clean_rows[k].category = ok_norm[k].category
       /\ ok_norm[l].category \in AllowedSet

(***************************************************************************)
(* The banned-word and the date-range check of apply_rules.                *)
(***************************************************************************)

\* The banned_word warnings of the k-th normalized row.
BannedWarningsOf(k) ==
  {i \in OfKind("banned_word") : warnings[i].row = ok_norm[k].row}

\* banned_words as configured ([] when absent).
ConfiguredWords == OrEmptyList(rules.banned_words)

\* The positions of the configured words that are substrings of the k-th
\* row's merchant (the empty word is a substring of every merchant).
SubstringWords(k) ==
  {n \in DOMAIN ConfiguredWords : IsSubstring(ConfiguredWords[n], ok_norm[k].merchant)}

\* The same, the empty word left out.
MatchingWords(k) == {n \in SubstringWords(k) : ConfiguredWords[n] # <<>>}

\* What the banned-word check gives the k-th row when the words at the
\* positions in S are the ones that count as matching: one warning if S is
\* not empty, naming the first word of S, with the clean record's category.
BannedOutcome(k, S) ==
  /\ Cardinality(BannedWarningsOf(k)) = IF S = {} THEN 0 ELSE 1
  /\ \A i \in BannedWarningsOf(k) :
       /\ \E n \in S :
            /\ \A m \in S : n <= m
            /\ warnings[i].message = <<"contains banned word: ">> \o ConfiguredWords[n]
       /\ warnings[i].category = clean_rows[k].category
       /\ warnings[i].merchant = ok_norm[k].merchant

\* C21 as stated: a row gets exactly one banned_word warning if and only if
\* some configured banned word is a substring of its merchant, and none
\* otherwise; the warning names the first such word in configured order and
\* carries the post-fallback category.
C21_AnyWordMatches ==
  Ruled => \A k \in DOMAIN ok_norm : BannedOutcome(k, SubstringWords(k))

\* C21 amended: the same with "some non-empty configured banned word": an
\* empty entry of banned_words is skipped and matches no merchant.
C21_BannedWord ==
  Ruled =>
    /\ \A k \in DOMAIN ok_norm : BannedOutcome(k, MatchingWords(k))
    /\ \A i \in OfKind("banned_word") :
         \E k \in DOMAIN ok_norm : i \in BannedWarningsOf(k)

\* C21 witness: under fallback mode a row with a not-allowed category whose
\* merchant contains two of the banned words has its single warning, and
\* another row has none.
C21_Witness ==
  /\ Ruled
  /\ rules.unknown_category_mode = W_fallback
  /\ \E k, l \in DOMAIN ok_norm :
       /\ NotAllowed(k)
       /\ clean_rows[k].category # ok_norm[k].category
       /\ Cardinality(MatchingWords(k)) >= 2
       /\ Cardinality(BannedWarningsOf(k)) = 1
       /\ BannedWarningsOf(l) = {}

\* The date_range warnings of the k-th normalized row.
DateWarningsOf(k) ==
  {i \in OfKind("date_range") : warnings[i].row = ok_norm[k].row}

\* The rules file configures a valid date as date_range.min (max).
ValidBound(side) ==
  LET v == ConfiguredBound(side) IN IsStr(v) /\ v # <<>> /\ parse_date(v)

\* The date of the k-th row is lexicographically below a valid min.
BelowMin(k) == ValidBound("min") /\ TextLess(ok_norm[k].date, ConfiguredBound("min"))

\* The date of the k-th row is lexicographically above a valid max.
AboveMax(k) == ValidBound("max") /\ TextLess(ConfiguredBound("max"), ok_norm[k].date)

\* C22: for each row the number of date_range warnings is (1 if a valid min
\* is configured and the date is lexicographically below it, else 0) plus (1
\* if a valid max is configured and the date is lexicographically above it,
\* else 0); a row has two only when min > max and its date is strictly
\* between max and min; an inverted range is applied, not rejected.
C22_DateRangeCount ==
  Ruled =>
    /\ \A k \in DOMAIN ok_norm :
         /\ Cardinality(DateWarningsOf(k))
              = (IF BelowMin(k) THEN 1 ELSE 0) + (IF AboveMax(k) THEN 1 ELSE 0)
         /\ Cardinality(DateWarningsOf(k) \cap BoundWarnings("min"))
              = IF BelowMin(k) THEN 1 ELSE 0
         /\ Cardinality(DateWarningsOf(k) \cap BoundWarnings("max"))
              = IF AboveMax(k) THEN 1 ELSE 0
         /\ Cardinality(DateWarningsOf(k)) = 2 =>
              /\ TextLess(ConfiguredBound("max"), ConfiguredBound("min"))
              /\ TextLess(ConfiguredBound("max"), ok_norm[k].date)
              /\ TextLess(ok_norm[k].date, ConfiguredBound("min"))
    /\ \A i \in OfKind("date_range") :
         \E k \in DOMAIN ok_norm : i \in DateWarningsOf(k)

\* C22 witness: under an inverted range one row strictly between max and min
\* has two date_range warnings and a row on a bound has one.
C22_Witness ==
  /\ Ruled
  /\ ValidBound("min") /\ ValidBound("max")
  /\ TextLess(ConfiguredBound("max"), ConfiguredBound("min"))
  /\ \E k, l \in DOMAIN ok_norm :
       /\ Cardinality(DateWarningsOf(k)) = 2
       /\ Cardinality(DateWarningsOf(l)) = 1

(***************************************************************************)
(* The order of the warnings of apply_rules.                               *)
(***************************************************************************)

RowScopedKinds == {"category_unknown", "banned_word", "date_range"}

LimitKinds ==
  <<"limit_daily_total", "limit_monthly_total", "limit_category_daily",
    "limit_category_monthly">>

RowScoped(i) == warnings[i].kind \in RowScopedKinds

\* The position in the input of the row a row-scoped warning is about.
InputPos(i) == CHOOSE k \in DOMAIN ok_norm : ok_norm[k].row = warnings[i].row

\* The place of a row-scoped warning among the warnings of its row.
PlaceInRow(i) ==
  IF warnings[i].kind = "category_unknown" THEN 1
  ELSE IF warnings[i].kind = "banned_word" THEN 2
  ELSE IF i \in BoundWarnings("min") THEN 3
  ELSE 4

\* The place of the kind of a limit warning.
PlaceOfKind(i) == CHOOSE n \in DOMAIN LimitKinds : LimitKinds[n] = warnings[i].kind

\* The key of a limit warning: date, month, (date, category), (month, category).
LimitKey(i) ==
  IF warnings[i].kind = "limit_daily_total" THEN <<warnings[i].date, <<>>>>
  ELSE IF warnings[i].kind = "limit_monthly_total" THEN <<warnings[i].month, <<>>>>
  ELSE IF warnings[i].kind = "limit_category_daily"
  THEN <<warnings[i].date, warnings[i].category>>
  ELSE <<warnings[i].month, warnings[i].category>>

\* The warning at i is to come before the warning at j.
ComesBefore(i, j) ==
  IF RowScoped(i) /\ RowScoped(j)
  THEN \/ InputPos(i) < InputPos(j)
       \/ InputPos(i) = InputPos(j) /\ PlaceInRow(i) < PlaceInRow(j)
  ELSE IF ~RowScoped(i) /\ ~RowScoped(j)
  THEN \/ PlaceOfKind(i) < PlaceOfKind(j)
       \/ /\ PlaceOfKind(i) = PlaceOfKind(j)
          /\ \/ TextLess(LimitKey(i)[1], LimitKey(j)[1])
             \/ /\ LimitKey(i)[1] = LimitKey(j)[1]
                /\ TextLess(LimitKey(i)[2], LimitKey(j)[2])
  ELSE RowScoped(i)

\* C23: every row-scoped warning precedes every limit_* warning; row-scoped
\* warnings are in input row order and, within a row, in the order
\* category_unknown, banned_word, date_range(min), date_range(max); limit
\* warnings are grouped by kind in the order limit_daily_total,
\* limit_monthly_total, limit_category_daily, limit_category_monthly and,
\* within a kind, in ascending key order.
C23_WarningOrder ==
  Ruled =>
    /\ \A i \in DOMAIN warnings :
         /\ warnings[i].kind \in RowScopedKinds \cup {LimitKinds[n] : n \in DOMAIN LimitKinds}
         /\ RowScoped(i) => \E k \in DOMAIN ok_norm : ok_norm[k].row = warnings[i].row
    /\ \A i, j \in DOMAIN warnings : i < j => ComesBefore(i, j)

\* C23 witness: two rows with row-scoped warnings, one of them with two,
\* followed by limit warnings of two kinds, one kind with two keys.
C23_Witness ==
  /\ Ruled
  /\ \E i, j \in DOMAIN warnings :
       RowScoped(i) /\ RowScoped(j) /\ InputPos(i) < InputPos(j)
  /\ \E i, j \in DOMAIN warnings :
       RowScoped(i) /\ RowScoped(j) /\ InputPos(i) = InputPos(j) /\ i < j
  /\ \E i, j \in DOMAIN warnings :
       ~RowScoped(i) /\ ~RowScoped(j) /\ PlaceOfKind(i) < PlaceOfKind(j)
  /\ \E i, j \in DOMAIN warnings :
       /\ ~RowScoped(i) /\ ~RowScoped(j) /\ i < j
       /\ warnings[i].kind = warnings[j].kind

(***************************************************************************)
(* The clean rows of apply_rules.                                          *)
(***************************************************************************)

\* The records apply_rules was given.
RuleInput == normalize_ok_rows(ok_rows)

\* The row-scoped warnings of the k-th normalized row.
RowWarningsOf(k) == UnknownWarningsOf(k) \cup BannedWarningsOf(k) \cup DateWarningsOf(k)

\* C24: apply_rules returns exactly one clean record per input row, in input
\* order, whose row, date, amount and merchant equal the input record's,
\* whatever warnings the row triggered; only category may differ; the input
\* records are left as they were.
C24_CleanRowsPreserved ==
  Ruled =>
    /\ Len(clean_rows) = Len(RuleInput)
    /\ \A k \in DOMAIN RuleInput :
         /\ DOMAIN clean_rows[k] = DOMAIN RuleInput[k]
         /\ \A f \in DOMAIN RuleInput[k] \ {"category"} :
              clean_rows[k][f] = RuleInput[k][f]
    /\ ok_norm = RuleInput

\* C24 witness: a row with several warnings and a substituted category and a
\* row without warnings are both in clean_rows, in input order.
C24_Witness ==
  /\ Ruled
  /\ Len(clean_rows) >= 2
  /\ \E k, l \in DOMAIN clean_rows :
       /\ Cardinality(RowWarningsOf(k)) >= 2
       /\ clean_rows[k].category # RuleInput[k].category
       /\ RowWarningsOf(l) = {}

=============================================================================
